---------------------------- MODULE Spec2Model ----------------------------
(***************************************************************************)
(* A model of the UTAM browser extension's page-object resolution engine   *)
(* (PageObjectDatabase): the static pass that parses a set of JSON page    *)
(* object definitions into elements and methods; and of the content       *)
(* script that uses the parsed page objects to find elements in the        *)
(* document (ElementFinder, expandNode, locateValidRootPageObjects).       *)
(* The panels' artifact store, the background service worker and the      *)
(* panel and tab sets of the DevTools page each have a section and a       *)
(* specification of their own.                                             *)
(*                                                                         *)
(* JavaScript values are modelled as follows.                              *)
(*  - undefined is the string UNDEF; a missing string field is UNDEF.      *)
(*  - an argument object {name, type} of a definition is the string of its *)
(*    name; an argument of a request is the record Arg(name, value).       *)
(*  - a DOM node is its index in the document, a sequence of Node records  *)
(*    in document order; the document itself is DocumentNode and null is   *)
(*    NullNode.                                                            *)
(*  - an array-valued element type (a list of capability names) is one of  *)
(*    the strings of CapabilityArrays; KeyOf gives the property key such   *)
(*    an array is coerced to when it indexes an object.                    *)
(*  - a JS array that is aliased and mutated (method.args) lives in the    *)
(*    heap variable margs; a descriptor that holds such an array holds     *)
(*    the reference argsRef beside the contents it had when the            *)
(*    descriptor was returned.                                             *)
(*  - a thrown exception is the field thrown of the threaded state.        *)
(***************************************************************************)
EXTENDS Integers, Sequences, FiniteSets, TLC

VARIABLES
    artifacts,           \* settings.pageObjects: the imported artifacts
    defs,                \* allPageObjects: URI -> raw definition
    order,               \* the key order of allPageObjects (for ... in)
    margs,               \* heap: <<uri, method index>> -> contents of method.args
    phase,               \* position of reloadDatabase()
    idx,                 \* number of URIs the resolve loop has handled
    cache,               \* #parsedPageObjectCache
    rootPageObjectUris,  \* PageObjectDatabase.rootPageObjectUris
    yields,              \* history: what each #parsePageObject call returned
    thrown,              \* the exception reloadDatabase() rejected with
    sent,                \* the message updatePageObjectDatabase() has sent
    dom,                 \* the document the content script runs in
    selectedNodes,       \* MemberNodeDescriptorCollection.#selectedNodes
    request,             \* the message the listener handled last
    response,            \* what the listener responded to it
    fault,               \* the exception the listener threw on it
    queries,             \* the document queries the listener made for it
    fileNames,           \* storage: the file name of each imported artifact
    snapshots,           \* SettingsTab.#settings.pageObjects of each panel
    imported,            \* history: the imports in place, latest import last
    loads,               \* the update types of the further reloadDatabase()
                         \* calls that await settings.load()
    connections,         \* background.js: connections, in insertion order
    opened,              \* the names of the ports opened so far
    inFlight,            \* chrome.tabs.sendMessage promises not yet settled
    settled,             \* the promise settled last and what its handlers did
    shownPanel,          \* PanelSet: the panel showPanel() showed last
    activeTab,           \* TabSet.#activeTab of the main panel
    activeTabs           \* the tabs that carry slds-is-active and slds-show

\* What the message handlers of the content script own.
session == <<dom, selectedNodes, request, response, fault, queries>>

\* What the panels own besides the stored artifacts.
importer == <<fileNames, snapshots, imported>>

\* What the reload and the listener of the content script leave alone.
extension == <<importer, loads>>

\* What the background service worker owns.
worker == <<connections, opened, inFlight, settled>>

\* What the panel set and the tab set of the DevTools page own.
panelSet == <<shownPanel, activeTab, activeTabs>>

devtools == <<worker, panelSet>>

vars == <<artifacts, defs, order, margs, phase, idx, cache,
          rootPageObjectUris, yields, thrown, sent, session, extension,
          devtools>>

---------------------------------------------------------------------------
(* Bounds of the model *)

\* Steps in the generated compose array of the method under study.
MaxSteps == 2

\* Call-stack frames (#parsePageObject / #processMethod) before the engine
\* reports "Maximum call stack size exceeded". The terminating resolutions
\* of the inputs below need at most five frames; only a resolution that
\* re-enters the same method or page object needs more.
MaxDepth == 6

\* Further calls of reloadDatabase() that begin while one awaits its load.
MaxOverlap == 1

---------------------------------------------------------------------------
(* DataTypes *)

UNDEF == "undefined"
VOID == "void"
STRING_T == "string"
NUMBER == "number"
BOOLEAN_T == "boolean"
CONTAINER == "container"
DOCUMENT == "document"
NAVIGATION == "navigation"
BASIC == "basic"
METHOD == "method"
PAGE_OBJECT == "pageobject"
INTRINSIC == "intrinsic"
ROOT == "root"

NULL == "null"

\* JavaScript truthiness of a string, null or undefined value.
Truthy(v) == v # UNDEF /\ v # NULL /\ v # ""

\* Array-valued element types and the property key each is coerced to.
CapabilityArrays ==
    {"[clickable]", "[editable]", "[actionable,clickable]",
     "[clickable,editable]"}

KeyOf(t) ==
    CASE t = "[clickable]" -> "clickable"
      [] t = "[editable]" -> "editable"
      [] t = "[actionable,clickable]" -> "actionable,clickable"
      [] t = "[clickable,editable]" -> "clickable,editable"
      [] OTHER -> t

\* typeof(t) === "string" || t instanceof String
IsStringType(t) == t \notin CapabilityArrays /\ t # UNDEF

---------------------------------------------------------------------------
(* The intrinsic method catalog, in declaration order *)

IM(group, name, type, args) ==
    [group |-> group, name |-> name, type |-> type, effectiveArgs |-> args,
     category |-> INTRINSIC, public |-> TRUE]

intrinsicMethods ==
    << IM("basic", "containsElement", BOOLEAN_T, <<>>),
       IM("basic", "waitFor", VOID, <<>>),
       IM("basic", "getAttribute", STRING_T, <<"attribute">>),
       IM("basic", "getClassAttribute", STRING_T, <<>>),
       IM("basic", "getCssPropertyValue", STRING_T, <<"propertyName">>),
       IM("basic", "getText", STRING_T, <<>>),
       IM("basic", "getTitle", STRING_T, <<>>),
       IM("basic", "getValue", STRING_T, <<>>),
       IM("basic", "isEnabled", BOOLEAN_T, <<>>),
       IM("basic", "isFocused", BOOLEAN_T, <<>>),
       IM("basic", "isPresent", BOOLEAN_T, <<>>),
       IM("basic", "isVisible", BOOLEAN_T, <<>>),
       IM("basic", "waitForAbsence", VOID, <<>>),
       IM("basic", "waitForInvisible", VOID, <<>>),
       IM("basic", "waitForVisible", VOID, <<>>),
       IM("actionable", "blur", VOID, <<>>),
       IM("actionable", "focus", VOID, <<>>),
       IM("actionable", "moveTo", VOID, <<>>),
       IM("actionable", "scrollToCenter", VOID, <<>>),
       IM("actionable", "scrollToTop", VOID, <<>>),
       IM("clickable", "click", VOID, <<>>),
       IM("clickable", "doubleClick", VOID, <<>>),
       IM("clickable", "rightClick", VOID, <<>>),
       IM("clickable", "clickAndHold", VOID, <<"holdDurationSec">>),
       IM("editable", "clear", VOID, <<>>),
       IM("editable", "clearAndType", VOID, <<"text">>),
       IM("editable", "press", VOID, <<"key">>),
       IM("editable", "setText", VOID, <<"text">>),
       IM("draggable", "dragAndDrop", VOID, <<"element", "durationSec">>),
       IM("draggable", "dragAndDropByOffset", VOID,
          <<"offsetX", "offsetY", "durationSec">>),
       IM("list", "size", NUMBER, <<>>),
       IM("element", "returnSelf", VOID, <<>>) >>

\* Object.values(#intrinsicMethods).flatMap(filter(name === apply))
CandidateIntrinsicMethods(apply) ==
    SelectSeq(intrinsicMethods, LAMBDA m : m.name = apply)

---------------------------------------------------------------------------
(* Small helpers on sequences and maps *)

RECURSIVE Flatten(_)
Flatten(ss) == IF ss = <<>> THEN <<>> ELSE Head(ss) \o Flatten(Tail(ss))

EmptyMap == [x \in {} |-> x]

Put(f, k, v) == [x \in (DOMAIN f) \cup {k} |-> IF x = k THEN v ELSE f[x]]

\* F applied to the value of v, with v evaluated once.
With(v, F(_)) == CHOOSE x \in { F(r) : r \in {v} } : TRUE

SeqsUpTo(S, n) == UNION {[1..k -> S] : k \in 0..n}

---------------------------------------------------------------------------
(* Raw definitions: the input format *)

\* hasArgs: the selector has an args property (args # <<>> in the model).
Sel(css, args, returnAll) ==
    [css |-> css, args |-> args, returnAll |-> returnAll,
     hasArgs |-> args # <<>>]

NoSelector == Sel(UNDEF, <<>>, FALSE)

Filter(apply, matcherArgs, findFirst) ==
    [present |-> TRUE, apply |-> apply, matcherType |-> "stringEquals",
     matcherArgs |-> matcherArgs, findFirst |-> findFirst]

NoFilter ==
    [present |-> FALSE, apply |-> UNDEF, matcherType |-> UNDEF,
     matcherArgs |-> <<>>, findFirst |-> FALSE]

ElementDef(name, type, selector, filter, public, elements, shadow) ==
    [name |-> name, type |-> type, selector |-> selector, filter |-> filter,
     public |-> public, elements |-> elements, shadow |-> shadow]

Leaf(name, type, selector) ==
    ElementDef(name, type, selector, NoFilter, TRUE, <<>>, <<>>)

StepDef(element, apply, chain) ==
    [element |-> element, apply |-> apply, chain |-> chain,
     applyExternal |-> UNDEF, returnType |-> UNDEF, hasArgs |-> FALSE,
     argType |-> UNDEF, argValue |-> UNDEF, predicate |-> <<>>]

MethodDef(name, hasArgs, args, returnType, return, compose) ==
    [name |-> name, hasArgs |-> hasArgs, args |-> args,
     returnType |-> returnType, return |-> return, compose |-> compose]

PageObjectDef(root, hasSelector, selector, elements, shadow, methods) ==
    [root |-> root, hasSelector |-> hasSelector, selector |-> selector,
     elements |-> elements,
     shadow |-> shadow, methods |-> methods]

URI_A == "po/a"
URI_B == "po/b"
URI_MISSING == "po/zz"
URI_DEEP == "po/x/a"

---------------------------------------------------------------------------
(* Elements: #processElementObject and #processElements *)

\* const selector = {}; Object.assign(selector, elementObject.selector)
\* only when the declared selector has a css.
EffectiveSelector(elementObject) ==
    IF Truthy(elementObject.selector.css)
    THEN elementObject.selector
    ELSE NoSelector

\* A deliberately wrong variant, for sensitivity runs:
\* the matcher args are pushed whether or not the selector returns all.
PushElementArgsAnyFilter(elementObject, elementArgs) ==
    elementArgs \o EffectiveSelector(elementObject).args
                \o elementObject.filter.matcherArgs

\* The pushes onto elementArgs: the selector's args, then the filter's
\* matcher args when the selector returns all.
PushElementArgs(elementObject, elementArgs) ==
    LET selector == EffectiveSelector(elementObject)
        withSelector == elementArgs \o selector.args
    IN  IF selector.returnAll /\ elementObject.filter.present
        THEN withSelector \o elementObject.filter.matcherArgs
        ELSE withSelector

ElementCategory(elementObject, uris) ==
    IF Truthy(elementObject.type) /\ IsStringType(elementObject.type)
    THEN IF elementObject.type = CONTAINER THEN CONTAINER
         ELSE IF elementObject.type \in uris THEN PAGE_OBJECT
         ELSE BASIC
    ELSE BASIC

processElementObject(elementObject, parentName, elementArgs, isInShadowRoot, uris) ==
    LET selector == EffectiveSelector(elementObject)
    IN  [name |-> elementObject.name,
         effectiveArgs |-> PushElementArgs(elementObject, elementArgs),
         type |-> elementObject.type,
         category |-> ElementCategory(elementObject, uris),
         selector |-> selector,
         returnsList |-> selector.returnAll \/ elementObject.filter.findFirst,
         filter |-> elementObject.filter,
         parent |-> parentName,
         public |-> elementObject.public,
         isInShadowRoot |-> isInShadowRoot]

\* parentArgs.slice(): every element starts from its own copy.
RECURSIVE processElementList(_, _, _, _, _, _)
RECURSIVE processElements(_, _, _, _, _)

processElementList(list, isInShadowRoot, parentName, parentArgs, uris, elements) ==
    IF list = <<>> THEN elements
    ELSE LET element == Head(list)
             processed == processElementObject(element, parentName, parentArgs,
                                               isInShadowRoot, uris)
             stored == Put(elements, element.name, processed)
             below == processElements(element, element.name,
                                      processed.effectiveArgs, uris, stored)
         IN  processElementList(Tail(list), isInShadowRoot, parentName,
                                parentArgs, uris, below)

processElements(fragment, parentName, parentArgs, uris, elements) ==
    processElementList(fragment.shadow, TRUE, parentName, parentArgs, uris,
        processElementList(fragment.elements, FALSE, parentName, parentArgs,
                           uris, elements))

\* The synthetic root element of #parsePageObject.
RootElementDef(pageObjectUri, pageObject) ==
    [name |-> ROOT, type |-> pageObjectUri, selector |-> pageObject.selector,
     filter |-> NoFilter, public |-> FALSE, elements |-> <<>>, shadow |-> <<>>]

\* Object.assign({}, parsedPageObject.elements[name]) for a name that is
\* not in the map: an object without any property.
EmptyObject ==
    [name |-> UNDEF, effectiveArgs |-> <<>>, type |-> UNDEF, category |-> UNDEF,
     selector |-> NoSelector, returnsList |-> FALSE, filter |-> NoFilter,
     parent |-> UNDEF, public |-> FALSE, isInShadowRoot |-> FALSE]

---------------------------------------------------------------------------
(* Methods: #processMethods, #processMethod, #processStep, #parsePageObject *)
(*                                                                         *)
(* The operators thread st = [margs, cache, yields, thrown]: the heap of   *)
(* method.args arrays, the parsed page object cache, the history of        *)
(* returned parses and the exception in flight.  depth counts the          *)
(* #parsePageObject and #processMethod frames on the call stack.           *)

NONE == "none"
RangeError == "RangeError: Maximum call stack size exceeded"
TypeError == "TypeError: Cannot read properties of undefined"

NoRef == <<>>

\* method.args || []: the declared array itself when there is one.
ArgsRef(uri, i) == IF defs[uri].methods[i].hasArgs THEN <<uri, i>> ELSE NoRef

Throw(st, e) == [st EXCEPT !.thrown = e]

MethodDescriptor(method, args, ref, methodType, lastMethodStepApply, referencedElements) ==
    [name |-> method.name,
     effectiveArgs |-> args,
     argsRef |-> ref,
     category |-> METHOD,
     type |-> methodType,
     public |-> TRUE,
     lastStepApply |-> lastMethodStepApply,
     elements |-> referencedElements]

\* The contents, now, of the array a stored descriptor holds as effectiveArgs.
EffectiveArgsOf(descriptor) ==
    IF descriptor.argsRef = NoRef
    THEN descriptor.effectiveArgs
    ELSE margs[descriptor.argsRef]

NoMethod ==
    MethodDescriptor([name |-> UNDEF], <<>>, NoRef, UNDEF, UNDEF, <<>>)

StepInfo(referencedElements, returnType, returnsList) ==
    [referencedElements |-> referencedElements, returnType |-> returnType,
     returnsList |-> returnsList]

\* The element part of #processStep.
StepElementInfo(methodStep, parsedPageObject) ==
    IF Truthy(methodStep.element) /\ methodStep.element # ROOT
    THEN IF methodStep.element = DOCUMENT THEN StepInfo(<<>>, DOCUMENT, FALSE)
         ELSE IF methodStep.element = NAVIGATION
              THEN StepInfo(<<>>, NAVIGATION, FALSE)
         ELSE LET found == IF methodStep.element \in DOMAIN parsedPageObject.elements
                           THEN parsedPageObject.elements[methodStep.element]
                           ELSE EmptyObject
                  referencedElement ==
                      IF /\ found.category = CONTAINER
                         /\ methodStep.hasArgs
                         /\ methodStep.argType = PAGE_OBJECT
                      THEN [found EXCEPT !.type = methodStep.argValue]
                      ELSE found
              IN  StepInfo(<<referencedElement>>,
                           IF Truthy(referencedElement.type)
                           THEN referencedElement.type ELSE BASIC,
                           referencedElement.returnsList)
    ELSE StepInfo(<<>>, "", FALSE)

\* A deliberately wrong variant, for sensitivity runs:
\* the catalog is not consulted; the element's type stands.
IntrinsicReturnTypeOfElement(apply, returnType) == returnType

\* The intrinsic branch of #processStep.
IntrinsicReturnType(apply, returnType) ==
    LET candidateIntrinsicMethods == CandidateIntrinsicMethods(apply)
    IN  IF Len(candidateIntrinsicMethods) > 0
        THEN candidateIntrinsicMethods[1].type
        ELSE returnType

\* The index of the first method of the source page object with this name,
\* 0 when there is none (calledMethod === null).
CalledMethodIndex(methods, name) ==
    IF \E i \in 1..Len(methods) : methods[i].name = name
    THEN CHOOSE i \in 1..Len(methods) :
            /\ methods[i].name = name
            /\ \A j \in 1..(i - 1) : methods[j].name # name
    ELSE 0

\* stepInfo.referencedElements.filter(not already tracked by name)
UnreferencedElements(stepElements, referencedElements) ==
    SelectSeq(stepElements,
              LAMBDA stepElement :
                  ~ \E i \in 1..Len(referencedElements) :
                        referencedElements[i].name = stepElement.name)

\* The step's type as the method walk records it.
StepReturnType(methodStep, stepInfo) ==
    IF Truthy(methodStep.returnType)
    THEN methodStep.returnType
    ELSE stepInfo.returnType

\* A chain step pivots when the previous step left a return type.
IsChained(methodStep, lastStepReturnType) ==
    methodStep.chain /\ lastStepReturnType # ""

\* stepPageObject and stepParsedPageObject of the method walk: the chain
\* target's on a chain step, the method's own otherwise.
StepPageObject(chained, key, uri) == IF chained THEN key ELSE uri

\* A deliberately wrong variant, for sensitivity runs:
\* the step is interpreted against the method's own parse.
StepParsedPageObjectOwn(chained, targetParsed, parsedPageObject) ==
    parsedPageObject

StepParsedPageObject(chained, targetParsed, parsedPageObject) ==
    IF chained THEN targetParsed ELSE parsedPageObject

\* A deliberately wrong variant, for sensitivity runs:
\* the declared return type is not consulted.
DeclaresReturnTypeIgnored(method) == FALSE

\* methodType.length === 0 decides whether the steps are walked.
DeclaresReturnType(method) == Truthy(method.returnType)

\* referencedElements.forEach(args.push(...effectiveArgs))
ReferencedArgs(referencedElements) ==
    Flatten([i \in 1..Len(referencedElements) |->
                referencedElements[i].effectiveArgs])

WaitForMethod(methodStep) ==
    [name |-> "tempWaitForMethod", hasArgs |-> FALSE, args |-> <<>>,
     returnType |-> UNDEF, return |-> UNDEF, compose |-> methodStep.predicate]

RECURSIVE parsePageObject(_, _, _)
RECURSIVE processMethods(_, _, _, _, _)
RECURSIVE processMethod(_, _, _, _, _, _)
RECURSIVE walkSteps(_, _, _, _, _, _, _)
RECURSIVE interpretStep(_, _, _, _, _, _, _)
RECURSIVE processStep(_, _, _, _, _)

processStep(uri, methodStep, parsedPageObject, st, depth) ==
    LET here == [parsed |-> parsedPageObject, st |-> st]
        el == StepElementInfo(methodStep, parsedPageObject)
        i == CalledMethodIndex(defs[uri].methods, methodStep.apply)
    IN  CASE Truthy(methodStep.applyExternal) ->
               [stepInfo |-> StepInfo(<<>>, VOID, FALSE)] @@ here
        []   ~Truthy(methodStep.apply) ->
               [stepInfo |-> el] @@ here
        []   methodStep.apply = "waitFor" /\ ~methodStep.hasArgs ->
               \* methodStep.args[0] of undefined
               [stepInfo |-> el, parsed |-> parsedPageObject,
                st |-> Throw(st, TypeError)]
        []   methodStep.apply = "waitFor" ->
               With(processMethod(uri, WaitForMethod(methodStep), NoRef,
                                  parsedPageObject, st, depth),
                    LAMBDA w :
                      [stepInfo |->
                          StepInfo(el.referencedElements \o w.value.elements,
                                   w.value.type, el.returnsList),
                       parsed |-> w.parsed, st |-> w.st])
        []   Truthy(methodStep.element) ->
               [stepInfo |->
                   StepInfo(el.referencedElements,
                            IntrinsicReturnType(methodStep.apply, el.returnType),
                            el.returnsList)] @@ here
        []   methodStep.apply = "returnSelf" ->
               [stepInfo |-> StepInfo(el.referencedElements, VOID, FALSE)] @@ here
        []   methodStep.apply \in DOMAIN parsedPageObject.methods ->
               [stepInfo |->
                   StepInfo(el.referencedElements
                               \o parsedPageObject.methods[methodStep.apply].elements,
                            parsedPageObject.methods[methodStep.apply].type,
                            FALSE)] @@ here
        []   i = 0 ->
               [stepInfo |-> el] @@ here
        []   OTHER ->
               With(processMethod(uri, defs[uri].methods[i], ArgsRef(uri, i),
                                  parsedPageObject, st, depth),
                    LAMBDA c :
                      IF c.st.thrown # NONE
                      THEN [stepInfo |-> el, parsed |-> c.parsed, st |-> c.st]
                      ELSE [stepInfo |->
                               StepInfo(el.referencedElements, c.value.type,
                                        FALSE),
                            parsed |->
                               [c.parsed EXCEPT !.methods =
                                   Put(@, c.value.name, c.value)],
                            st |-> c.st])

\* The locals of the method walk after one more step.
AfterStep(method, methodStep, acc, stepInfo) ==
    LET external == Truthy(methodStep.applyExternal) /\ acc.methodType = ""
        applied == IF external THEN methodStep.applyExternal
                   ELSE acc.lastMethodStepApply
    IN  [lastStepReturnType |-> StepReturnType(methodStep, stepInfo),
         lastMethodStepApply |->
            IF Truthy(methodStep.apply) THEN methodStep.apply ELSE applied,
         methodType |->
            IF external
            THEN IF Truthy(method.return) THEN method.return ELSE VOID
            ELSE acc.methodType,
         referencedElements |->
            acc.referencedElements \o
            UnreferencedElements(stepInfo.referencedElements,
                                 acc.referencedElements)]

\* The forEach callback for one step; acc holds the locals of the method
\* walk.
interpretStep(uri, method, methodStep, acc, parsedPageObject, st, depth) ==
    LET chained == IsChained(methodStep, acc.lastStepReturnType)
        key == KeyOf(acc.lastStepReturnType)
    IN  CASE chained /\ key \notin DOMAIN defs ->
               \* "Aborting processing of method ...": return from the callback
               [acc |-> acc, parsed |-> parsedPageObject, st |-> st]
        []   chained ->
               With(parsePageObject(key, st, depth),
                 LAMBDA target :
                   IF target.st.thrown # NONE
                   THEN [acc |-> acc, parsed |-> parsedPageObject,
                         st |-> target.st]
                   ELSE
                   With(processStep(StepPageObject(TRUE, key, uri), methodStep,
                                    StepParsedPageObject(TRUE, target.parsed,
                                                         parsedPageObject),
                                    target.st, depth),
                     LAMBDA r :
                       \* The parse of the target is a complete one:
                       \* #processStep finds every method of it already
                       \* parsed and leaves it as it is.
                       [acc |-> IF r.st.thrown # NONE THEN acc
                                ELSE AfterStep(method, methodStep, acc,
                                               r.stepInfo),
                        parsed |-> parsedPageObject, st |-> r.st]))
        []   OTHER ->
               With(processStep(StepPageObject(FALSE, key, uri), methodStep,
                                StepParsedPageObject(FALSE, parsedPageObject,
                                                     parsedPageObject),
                                st, depth),
                 LAMBDA r :
                   [acc |-> IF r.st.thrown # NONE THEN acc
                            ELSE AfterStep(method, methodStep, acc, r.stepInfo),
                    parsed |-> r.parsed, st |-> r.st])

\* methodSteps.forEach
walkSteps(uri, method, steps, acc, parsedPageObject, st, depth) ==
    IF steps = <<>> \/ st.thrown # NONE
    THEN [acc |-> acc, parsed |-> parsedPageObject, st |-> st]
    ELSE With(interpretStep(uri, method, Head(steps), acc, parsedPageObject,
                            st, depth),
           LAMBDA n :
             walkSteps(uri, method, Tail(steps), n.acc, n.parsed, n.st, depth))

processMethod(uri, method, ref, parsedPageObject, st, depth) ==
    CASE method.name \in DOMAIN parsedPageObject.methods ->
           [value |-> parsedPageObject.methods[method.name],
            parsed |-> parsedPageObject, st |-> st]
    []   depth >= MaxDepth ->
           [value |-> NoMethod, parsed |-> parsedPageObject,
            st |-> Throw(st, RangeError)]
    []   DeclaresReturnType(method) ->
           [value |-> MethodDescriptor(method,
                          IF ref = NoRef THEN <<>> ELSE st.margs[ref], ref,
                          method.returnType, "", <<>>),
            parsed |-> parsedPageObject, st |-> st]
    []   OTHER ->
           With(walkSteps(uri, method, method.compose,
                          [lastStepReturnType |-> "", lastMethodStepApply |-> "",
                           methodType |-> "", referencedElements |-> <<>>],
                          parsedPageObject, st, depth + 1),
             LAMBDA w :
               IF w.st.thrown # NONE
               THEN [value |-> NoMethod, parsed |-> w.parsed, st |-> w.st]
               ELSE
               LET pushed == ReferencedArgs(w.acc.referencedElements)
                   args == (IF ref = NoRef THEN <<>> ELSE w.st.margs[ref])
                              \o pushed
               IN  [value |-> MethodDescriptor(method, args, ref,
                                  w.acc.lastStepReturnType,
                                  w.acc.lastMethodStepApply,
                                  w.acc.referencedElements),
                    parsed |-> w.parsed,
                    st |-> IF ref = NoRef THEN w.st
                           ELSE [w.st EXCEPT !.margs[ref] = args]])

processMethods(uri, i, parsedPageObject, st, depth) ==
    IF i > Len(defs[uri].methods) \/ st.thrown # NONE
    THEN [parsed |-> parsedPageObject, st |-> st]
    ELSE With(processMethod(uri, defs[uri].methods[i], ArgsRef(uri, i),
                            parsedPageObject, st, depth),
           LAMBDA r :
             processMethods(uri, i + 1,
                            IF r.st.thrown # NONE THEN r.parsed
                            ELSE [r.parsed EXCEPT !.methods =
                                     Put(@, defs[uri].methods[i].name, r.value)],
                            r.st, depth))

\* The elements of a page object: the synthetic root, then the element tree.
ParsedElements(pageObjectUri, pageObject, uris) ==
    processElements(pageObject, NULL, <<>>, uris,
        IF pageObject.hasSelector
        THEN Put(EmptyMap, ROOT,
                 processElementObject(RootElementDef(pageObjectUri, pageObject),
                                      NULL, <<>>, FALSE, uris))
        ELSE EmptyMap)

parsePageObject(pageObjectUri, st, depth) ==
    IF depth >= MaxDepth
    THEN [parsed |-> [uri |-> pageObjectUri, elements |-> EmptyMap,
                      methods |-> EmptyMap],
          st |-> Throw(st, RangeError)]
    ELSE
    With([uri |-> pageObjectUri,
          elements |-> ParsedElements(pageObjectUri, defs[pageObjectUri],
                                      DOMAIN defs),
          methods |-> EmptyMap],
      LAMBDA parsed0 :
        With(processMethods(pageObjectUri, 1, parsed0, st, depth + 1),
          LAMBDA m :
            IF m.st.thrown # NONE
            THEN [parsed |-> m.parsed, st |-> m.st]
            ELSE [parsed |-> m.parsed,
                  st |-> [m.st EXCEPT
                            !.cache = Put(@, pageObjectUri, m.parsed),
                            !.yields = Append(@, m.parsed)]]))

---------------------------------------------------------------------------
(* The document *)
(*                                                                         *)
(* A document is a sequence of element nodes in document order; a node's   *)
(* parent comes before it. Node 0 is the document itself. A selector is    *)
(* kept as the sequence of its parts, markers being parts of their own.    *)

DocumentNode == 0

\* null, where an element is expected.
NullNode == -1

\* parent: the parent node, or for a node in a shadow tree its host;
\* inShadow: the node is a child of its host's shadow root.
Node(parent, inShadow, matches, text) ==
    [parent |-> parent, inShadow |-> inShadow, matches |-> matches,
     text |-> text]

ParamMarkers == {"%d", "%s"}

\* The parts of the css strings of the model.
Parts(css) ==
    CASE css = "li:nth-child(%d)" -> <<"li:nth-child(", "%d", ")">>
      [] css = ".cell-%s" -> <<".cell-", "%s">>
      [] OTHER -> <<css>>

\* selectorString.match(/\%[ds]/g)
MarkerMatch(selectorString) ==
    SelectSeq(selectorString, LAMBDA part : part \in ParamMarkers)

\* selectorString.replace(matchedSubstring, value): the first occurrence.
ReplaceFirst(selectorString, matchedSubstring, value) ==
    LET at == { i \in 1..Len(selectorString) :
                  selectorString[i] = matchedSubstring }
    IN  IF at = {} THEN selectorString
        ELSE LET first == CHOOSE i \in at : \A j \in at : i <= j
             IN  [selectorString EXCEPT ![first] = value]

\* selectorString.includes("%"), no value of the model holding a percent sign.
IncludesPercent(selectorString) ==
    \E i \in 1..Len(selectorString) : selectorString[i] \in ParamMarkers

\* node is in the tree under parentNode: its light tree, or the tree of its
\* shadow root.
RECURSIVE IsUnder(_, _, _, _)
IsUnder(document, node, parentNode, inShadowRoot) ==
    IF node = DocumentNode THEN FALSE
    ELSE IF document[node].parent = parentNode
         THEN document[node].inShadow = inShadowRoot
         ELSE /\ ~document[node].inShadow
              /\ IsUnder(document, document[node].parent, parentNode,
                         inShadowRoot)

\* parentNode.shadowRoot
HasShadowRoot(document, parentNode) ==
    \E n \in 1..Len(document) :
        document[n].parent = parentNode /\ document[n].inShadow

\* The nodes of a set as a sequence in document order.
RECURSIVE InDocumentOrder(_)
InDocumentOrder(nodes) ==
    IF nodes = {} THEN <<>>
    ELSE LET first == CHOOSE n \in nodes : \A m \in nodes : n <= m
         IN  <<first>> \o InDocumentOrder(nodes \ {first})

\* parentNode.querySelectorAll(selectorString), or that of its shadow root.
querySelectorAll(document, parentNode, inShadowRoot, selectorString) ==
    InDocumentOrder({ n \in 1..Len(document) :
                        /\ IsUnder(document, n, parentNode, inShadowRoot)
                        /\ selectorString \in document[n].matches })

\* One call of querySelectorAll or querySelector: the node it is made on,
\* the selector it passes, and the element descriptor it is made for.
Query(element, parentNode, inShadowRoot, selectorString) ==
    [element |-> element, node |-> parentNode, inShadowRoot |-> inShadowRoot,
     selector |-> selectorString]

SyntaxError == "SyntaxError"

---------------------------------------------------------------------------
(* ElementFinder *)

\* An argument of a request: the name of a parameter and the value given
\* to it, undefined when none was given.
Arg(name, value) == [name |-> name, value |-> value]

\* The descriptor has no property at all: it is the copy of a missing
\* element, or a string.
HasNoProperty(elementDescriptor) == elementDescriptor.name = UNDEF

NoFilterInfo ==
    [present |-> FALSE, apply |-> UNDEF, matcherType |-> UNDEF, args |-> <<>>,
     findFirst |-> FALSE, attribute |-> "", additionalElements |-> <<>>]

\* type.includes("/"), of a string or of an array of capability names.
IncludesSlash(type) == type \in {URI_A, URI_B, URI_MISSING, URI_DEEP}

\* A loop that does not end.
Hang == "hang"

\* The loop of #getFilterInfo: follow the filter's apply through the page
\* objects that the descriptors' types name. The result is the descriptor
\* reached, fault when a lookup finds nothing to read from.
RECURSIVE FilterDescriptor(_, _, _, _)
FilterDescriptor(currentDescriptor, effectiveApply, parsed, depth) ==
    IF ~IncludesSlash(currentDescriptor.type)
    THEN [descriptor |-> currentDescriptor, fault |-> NONE]
    ELSE IF depth >= MaxDepth
    THEN [descriptor |-> currentDescriptor, fault |-> Hang]
    ELSE IF currentDescriptor.type \notin DOMAIN parsed
    THEN [descriptor |-> currentDescriptor, fault |-> TypeError]
    ELSE LET parsedPageObject == parsed[currentDescriptor.type]
         IN  IF effectiveApply \in DOMAIN parsedPageObject.methods
             THEN FilterDescriptor(parsedPageObject.methods[effectiveApply],
                      parsedPageObject.methods[effectiveApply].lastStepApply,
                      parsed, depth + 1)
             ELSE IF effectiveApply \in DOMAIN parsedPageObject.elements
             THEN FilterDescriptor(parsedPageObject.elements[effectiveApply],
                                   effectiveApply, parsed, depth + 1)
             ELSE [descriptor |-> currentDescriptor, fault |-> TypeError]

\* currentDescriptor.lastStepApply: element descriptors have none.
LastStepApplyOf(descriptor) ==
    IF descriptor.category = METHOD THEN descriptor.lastStepApply ELSE UNDEF

\* args.filter(arg => matcherArgNames.includes(arg.name) && arg.value)
FilteredArgs(elementFilter, args) ==
    SelectSeq(args, LAMBDA arg :
        /\ \E i \in 1..Len(elementFilter.matcherArgs) :
               elementFilter.matcherArgs[i] = arg.name
        /\ Truthy(arg.value))

getFilterInfo(elementDescriptor, args, parsed) ==
    IF /\ ~HasNoProperty(elementDescriptor)
       /\ elementDescriptor.selector.returnAll
       /\ elementDescriptor.filter.present
       /\ Truthy(elementDescriptor.filter.apply)
    THEN LET found == FilterDescriptor(elementDescriptor,
                                       elementDescriptor.filter.apply,
                                       parsed, 0)
             currentDescriptor == found.descriptor
         IN  [info |->
                [present |-> TRUE,
                 apply |-> LastStepApplyOf(currentDescriptor),
                 matcherType |-> elementDescriptor.filter.matcherType,
                 args |-> FilteredArgs(elementDescriptor.filter, args),
                 findFirst |-> elementDescriptor.filter.findFirst,
                 attribute |-> "",
                 additionalElements |->
                     IF currentDescriptor.category = METHOD
                     THEN currentDescriptor.elements ELSE <<>>],
              fault |-> found.fault]
    ELSE [info |-> NoFilterInfo, fault |-> NONE]

FilterableApplyMethods == {"getText", "getTitle", "getAttribute"}

\* The forEach over additionalElements: querySelector from element to
\* element. The css is used as declared, markers included.
RECURSIVE EffectiveElement(_, _, _, _)
EffectiveElement(document, effectiveElement, additionalElements, i) ==
    IF i > Len(additionalElements)
    THEN [element |-> effectiveElement, fault |-> NONE]
    ELSE IF ~(~HasNoProperty(additionalElements[i])
                /\ Truthy(additionalElements[i].selector.css))
    THEN EffectiveElement(document, effectiveElement, additionalElements, i + 1)
    ELSE IF effectiveElement = NullNode
    THEN [element |-> NullNode, fault |-> TypeError]
    ELSE IF IncludesPercent(Parts(additionalElements[i].selector.css))
    THEN [element |-> NullNode, fault |-> SyntaxError]
    ELSE LET found == querySelectorAll(document, effectiveElement, FALSE,
                          Parts(additionalElements[i].selector.css))
         IN  EffectiveElement(document,
                              IF found = <<>> THEN NullNode ELSE found[1],
                              additionalElements, i + 1)

\* candidateValue.includes(filterValue); no text of the model is a proper
\* part of another.
Includes(candidateValue, filterValue) ==
    filterValue = "" \/ candidateValue = filterValue

\* The callback of elementArray.filter: keep (TRUE), drop (FALSE) or the
\* fault it throws.
FilterOne(document, element, filterInfo, filterValue) ==
    LET effective == EffectiveElement(document, element,
                                      filterInfo.additionalElements, 1)
        reads == filterInfo.apply \in {"getText", "getTitle"}
        candidateValue ==
            CASE filterInfo.apply = "getText" -> document[effective.element].text
              [] OTHER -> ""
    IN  IF effective.fault # NONE THEN [keep |-> FALSE, fault |-> effective.fault]
        ELSE IF reads /\ effective.element = NullNode
        THEN [keep |-> FALSE, fault |-> TypeError]
        ELSE [keep |->
                CASE filterInfo.matcherType = "stringEquals" ->
                         candidateValue = filterValue
                  [] filterInfo.matcherType = "stringContains" ->
                         Includes(candidateValue, filterValue)
                  [] OTHER -> FALSE,
              fault |-> NONE]

filterElements(document, elements, filterInfo) ==
    IF elements = <<>> \/ ~filterInfo.present \/ filterInfo.args = <<>>
    THEN [elements |-> <<>>, fault |-> NONE]
    ELSE LET filterValue ==
                 IF filterInfo.apply \in FilterableApplyMethods
                 THEN filterInfo.args[1].value ELSE ""
             one(element) == FilterOne(document, element, filterInfo, filterValue)
             faulty == { i \in 1..Len(elements) : one(elements[i]).fault # NONE }
             filteredElements ==
                 SelectSeq(elements, LAMBDA element : one(element).keep)
         IN  IF faulty # {}
             THEN [elements |-> <<>>,
                   fault |-> one(elements[CHOOSE i \in faulty :
                                            \A j \in faulty : i <= j]).fault]
             ELSE [elements |->
                     IF filterInfo.findFirst /\ filteredElements # <<>>
                     THEN <<filteredElements[1]>> ELSE filteredElements,
                   fault |-> NONE]

\* The forEach over the markers of getElement.
RECURSIVE Substitute(_, _, _, _)
Substitute(selectorString, paramMarkerMatch, args, argIndex) ==
    IF argIndex > Len(paramMarkerMatch) THEN selectorString
    ELSE Substitute(
             IF argIndex <= Len(args) /\ Truthy(args[argIndex].value)
             THEN ReplaceFirst(selectorString, paramMarkerMatch[argIndex],
                               args[argIndex].value)
             ELSE selectorString,
             paramMarkerMatch, args, argIndex + 1)

\* args.splice(0, count): what is left in the array.
Splice(args, count) ==
    IF count >= Len(args) THEN <<>> ELSE SubSeq(args, count + 1, Len(args))

\* What a call leaves behind: the element it returns or the fault it
\* throws, the args array as the call leaves it, the queries it made.
Found(element, args, made, thrownFault) ==
    [element |-> element, args |-> args, queries |-> made,
     fault |-> thrownFault]

getElement(document, elementDescriptor, args, filterInfo, parentNode) ==
    IF parentNode = NullNode THEN Found(NullNode, args, <<>>, NONE)
    ELSE IF HasNoProperty(elementDescriptor)
    THEN Found(NullNode, args, <<>>, TypeError)
    ELSE IF ~Truthy(elementDescriptor.selector.css)
    THEN Found(NullNode, args, <<>>, NONE)
    ELSE
    LET declared == Parts(elementDescriptor.selector.css)
        paramMarkerMatch == MarkerMatch(declared)
        binds == paramMarkerMatch # <<>> /\ args # <<>>
        selectorString ==
            IF binds THEN Substitute(declared, paramMarkerMatch, args, 1)
            ELSE declared
        left == IF binds THEN Splice(args, Len(paramMarkerMatch)) ELSE args
        inShadowRoot == /\ elementDescriptor.isInShadowRoot
                        /\ HasShadowRoot(document, parentNode)
        queried == ~IncludesPercent(selectorString)
        elements ==
            IF queried
            THEN querySelectorAll(document, parentNode, inShadowRoot,
                                  selectorString)
            ELSE <<>>
        made ==
            IF queried
            THEN <<Query(elementDescriptor.name, parentNode, inShadowRoot,
                         selectorString)>>
            ELSE <<>>
        filters == /\ elementDescriptor.selector.returnAll
                   /\ elementDescriptor.filter.present
        filtered == IF filters
                    THEN filterElements(document, elements, filterInfo)
                    ELSE [elements |-> <<>>, fault |-> NONE]
        kept == IF filtered.elements # <<>> THEN filtered.elements ELSE elements
    IN  IF filtered.fault # NONE
        THEN Found(NullNode, left, made, filtered.fault)
        ELSE Found(IF kept # <<>> THEN kept[1] ELSE NullNode, left, made,
                   NONE)

\* The forEach over the referenced elements of a method descriptor.
RECURSIVE WalkReferenced(_, _, _, _, _, _, _)
WalkReferenced(document, elements, i, args, currentElement, made, parsed) ==
    IF i > Len(elements) THEN Found(currentElement, args, made, NONE)
    ELSE
    LET referencedElement == elements[i]
        count == Len(referencedElement.effectiveArgs)
        slices == ~HasNoProperty(referencedElement)
        intermediateArgs ==
            IF slices THEN SubSeq(args, 1, IF count < Len(args) THEN count
                                           ELSE Len(args))
            ELSE args
        rest == IF slices THEN Splice(args, count) ELSE args
        intermediateFilterInfo ==
            getFilterInfo(referencedElement, intermediateArgs, parsed)
    IN  IF intermediateFilterInfo.fault # NONE
        THEN Found(NullNode, rest, made, intermediateFilterInfo.fault)
        ELSE With(getElement(document, referencedElement, intermediateArgs,
                             intermediateFilterInfo.info, currentElement),
               LAMBDA got :
                 IF got.fault # NONE
                 THEN Found(NullNode, rest, made \o got.queries, got.fault)
                 ELSE WalkReferenced(document, elements, i + 1, rest,
                                     got.element, made \o got.queries,
                                     parsed))

\* The path of an element: its ancestors, the outermost first.
RECURSIVE ElementPath(_, _)
ElementPath(parentDescriptor, elementCollection) ==
    IF Truthy(parentDescriptor.parent)
    THEN Append(ElementPath(elementCollection[parentDescriptor.parent],
                            elementCollection),
                parentDescriptor)
    ELSE <<parentDescriptor>>

\* The while loop of lines 250-253 ends: following the parent names from
\* the descriptor reaches an element without a parent. A chain that ends
\* passes no name twice, so it takes fewer hops than the collection has
\* names.
RECURSIVE PathEnds(_, _, _)
PathEnds(parentDescriptor, elementCollection, hops) ==
    IF ~Truthy(parentDescriptor.parent) THEN TRUE
    ELSE IF hops >= Cardinality(DOMAIN elementCollection) THEN FALSE
    ELSE PathEnds(elementCollection[parentDescriptor.parent],
                  elementCollection, hops + 1)

\* The forEach over the path segments of an element descriptor.
RECURSIVE WalkPath(_, _, _, _, _, _, _)
WalkPath(document, elementPath, i, args, currentElement, made, parsed) ==
    IF i > Len(elementPath) THEN Found(currentElement, args, made, NONE)
    ELSE IF ~elementPath[i].selector.hasArgs
    THEN WalkPath(document, elementPath, i + 1, args, currentElement, made,
                  parsed)
    ELSE
    LET pathSegment == elementPath[i]
        count == Len(pathSegment.selector.args)
        segmentArgs == SubSeq(args, 1, IF count < Len(args) THEN count
                                       ELSE Len(args))
        rest == Splice(args, count)
        pathSegmentFilterInfo == getFilterInfo(pathSegment, rest, parsed)
    IN  IF pathSegmentFilterInfo.fault # NONE
        THEN Found(NullNode, rest, made, pathSegmentFilterInfo.fault)
        ELSE With(getElement(document, pathSegment, segmentArgs,
                             pathSegmentFilterInfo.info, currentElement),
               LAMBDA got :
                 IF got.fault # NONE
                 THEN Found(NullNode, rest, made \o got.queries, got.fault)
                 ELSE WalkPath(document, elementPath, i + 1, rest, got.element,
                               made \o got.queries, parsed))

\* walkElements: the args of the result are those the caller's array holds
\* afterwards; only the call for the target works on that array itself,
\* and only when no path segment has sliced it.
walkElements(document, parentElement, memberDescriptor, args, elementCollection, parsed) ==
    IF memberDescriptor.category = METHOD
    THEN With(WalkReferenced(document, memberDescriptor.elements, 1, args,
                             parentElement, <<>>, parsed),
           LAMBDA walked : [walked EXCEPT !.args = args])
    ELSE
    With(IF ~HasNoProperty(memberDescriptor) /\ Truthy(memberDescriptor.parent)
         THEN IF ~PathEnds(elementCollection[memberDescriptor.parent],
                           elementCollection, 0)
              THEN Found(NullNode, args, <<>>, Hang)
              ELSE
              WalkPath(document,
                       ElementPath(elementCollection[memberDescriptor.parent],
                                   elementCollection),
                       1, args, parentElement, <<>>, parsed)
         ELSE Found(parentElement, args, <<>>, NONE),
      LAMBDA path :
        IF path.fault # NONE THEN [path EXCEPT !.args = args]
        ELSE
        With(getFilterInfo(memberDescriptor, path.args, parsed),
          LAMBDA filterInfo :
            IF filterInfo.fault # NONE
            THEN Found(NullNode, args, path.queries, filterInfo.fault)
            ELSE
            With(getElement(document, memberDescriptor, path.args,
                            filterInfo.info, path.element),
              LAMBDA got :
                Found(got.element,
                      IF Len(path.args) = Len(args) THEN got.args ELSE args,
                      path.queries \o got.queries, got.fault))))

\* findElement: document.querySelector(selector)
findElement(document, css) ==
    LET found == querySelectorAll(document, DocumentNode, FALSE, Parts(css))
    IN  IF IncludesPercent(Parts(css))
        THEN Found(NullNode, <<>>, <<>>, SyntaxError)
        ELSE Found(IF found = <<>> THEN NullNode ELSE found[1], <<>>,
                   <<Query(ROOT, DocumentNode, FALSE, Parts(css))>>, NONE)

---------------------------------------------------------------------------
(* PageObjectDatabase: what the content script asks of it *)

\* The key a capability array or a string names in #intrinsicMethods.
TypeArray(type) ==
    CASE type = "[clickable]" -> <<"clickable">>
      [] type = "[editable]" -> <<"editable">>
      [] type = "[actionable,clickable]" -> <<"actionable", "clickable">>
      [] type = "[clickable,editable]" -> <<"clickable", "editable">>
      [] OTHER -> <<type>>

\* #intrinsicMethods[intrinsicInterface], in declaration order.
IntrinsicGroup(group) ==
    SelectSeq(intrinsicMethods, LAMBDA m : m.group = group)

\* foundMembers[intrinsicMethod.name] = intrinsicMethod, for each in turn.
RECURSIVE PutAll(_, _)
PutAll(foundMembers, methods) ==
    IF methods = <<>> THEN foundMembers
    ELSE PutAll(Put(foundMembers, Head(methods).name, Head(methods)),
                Tail(methods))

\* A deliberately wrong variant, for sensitivity runs:
\* the members of the last group named stand alone.
IntrinsicMembersLastGroupOnly(foundMembers, groups) ==
    IF groups = <<>> THEN foundMembers
    ELSE PutAll(EmptyMap, IntrinsicGroup(groups[Len(groups)]))

\* typeArray.forEach: the members of every group named are added.
RECURSIVE IntrinsicMembers(_, _)
IntrinsicMembers(foundMembers, groups) ==
    IF groups = <<>> THEN foundMembers
    ELSE IntrinsicMembers(PutAll(foundMembers, IntrinsicGroup(Head(groups))),
                          Tail(groups))

getIntrinsicPublicMembers(type) ==
    IntrinsicMembers(PutAll(EmptyMap, IntrinsicGroup("basic")),
                     IF Truthy(type) THEN TypeArray(type) ELSE <<>>)

\* The public members of a parsed page object; a method replaces an
\* element of its name.
getPageObjectPublicMembers(allMembers) ==
    LET elements == { n \in DOMAIN allMembers.elements :
                        allMembers.elements[n].public }
        methods == { n \in DOMAIN allMembers.methods :
                       allMembers.methods[n].public }
    IN  [n \in elements \cup methods |->
           IF n \in methods THEN allMembers.methods[n]
           ELSE allMembers.elements[n]]

\* pageObjectDisplayNameFromUri, on the URIs of the model.
pageObjectDisplayNameFromUri(uri) ==
    CASE uri = URI_A -> "po/A"
      [] uri = URI_B -> "po/B"
      [] uri = URI_DEEP -> "po/A"
      [] OTHER -> "po/Zz"

---------------------------------------------------------------------------
(* The content script: expandNode and locateValidRootPageObjects *)

MemberNodeDescriptor(id, type, element, args) ==
    [id |-> id, type |-> type, element |-> element, args |-> args]

\* Messages and ErrorCodes
EXPAND_NODE == "expand"
EXPAND_NODE_RESULT == "expandChildren"
LOCATE_ROOT_PAGE_OBJECTS == "locate"
ROOT_PAGE_OBJECTS_LOCATED == "locatedRootPageObjects"
ERROR == "error"
NO_PAGE_OBJECTS_LOADED == "no page objects loaded"
NO_MATCHING_ROOT_PAGE_OBJECTS == "no root page objects matched"

\* No message, request or response.
Nothing == [type |-> NONE]

\* What a handler leaves behind: the collection, the response it returns
\* or the fault it throws, and the queries it made.
Handled(nodes, result, thrownFault, made) ==
    [nodes |-> nodes, response |-> result, fault |-> thrownFault,
     queries |-> made]

ExpandNodeResult(found, nodeId) ==
    [type |-> EXPAND_NODE_RESULT, located |-> DOMAIN found, parent |-> nodeId]

ErrorResult(error) == [type |-> ERROR, error |-> error]

\* parentType + "." + elementIdentifier
MemberId(parentType, elementIdentifier) == <<parentType, elementIdentifier>>

\* The branches of expandNode for a parent that is in the collection.
ExpandMember(document, parsed, nodes, nodeId, elementIdentifier, parentNodeId, args) ==
    LET parentNodeDescriptor == nodes[parentNodeId]
        parentType == parentNodeDescriptor.type
        parentElement == parentNodeDescriptor.element
    IN  IF parentType \notin DOMAIN parsed
        THEN Handled(nodes, Nothing, TypeError, <<>>)
        ELSE
        LET parentPageObject == parsed[parentType]
            isMethod == elementIdentifier \in DOMAIN parentPageObject.methods
            isElement == elementIdentifier \in DOMAIN parentPageObject.elements
            descriptor ==
                IF isMethod THEN parentPageObject.methods[elementIdentifier]
                ELSE IF isElement
                THEN parentPageObject.elements[elementIdentifier]
                ELSE EmptyObject
            type == IF isMethod \/ isElement THEN descriptor.type
                    ELSE elementIdentifier
            id == IF isMethod \/ isElement
                  THEN MemberId(parentType, elementIdentifier)
                  ELSE elementIdentifier
            found ==
                IF type \in DOMAIN parsed
                THEN getPageObjectPublicMembers(parsed[type])
                ELSE IF ~isMethod /\ isElement /\ descriptor.category = BASIC
                THEN getIntrinsicPublicMembers(descriptor.type)
                ELSE EmptyMap
        IN  IF ~isMethod /\ ~isElement /\ elementIdentifier \notin DOMAIN parsed
            THEN Handled(nodes, ExpandNodeResult(EmptyMap, nodeId), NONE, <<>>)
            ELSE With(walkElements(document, parentElement, descriptor, args,
                                   parentPageObject.elements, parsed),
                   LAMBDA walked :
                     IF walked.fault # NONE
                     THEN Handled(nodes, Nothing, walked.fault, walked.queries)
                     ELSE Handled(
                            Put(nodes, nodeId,
                                MemberNodeDescriptor(id, type, walked.element,
                                                     walked.args)),
                            ExpandNodeResult(found, nodeId), NONE,
                            walked.queries))

\* The branch of expandNode for a parent that is not in the collection:
\* the identifier is taken for a root page object.
ExpandRoot(document, parsed, nodes, nodeId, elementIdentifier) ==
    IF elementIdentifier \notin DOMAIN parsed
    THEN Handled(nodes, Nothing, TypeError, <<>>)
    ELSE IF ROOT \notin DOMAIN parsed[elementIdentifier].elements
    THEN Handled(nodes, Nothing, TypeError, <<>>)
    ELSE
    LET found == getPageObjectPublicMembers(parsed[elementIdentifier])
        selector == parsed[elementIdentifier].elements[ROOT].selector
    IN  IF ~Truthy(selector.css)
        THEN Handled(nodes, ExpandNodeResult(found, nodeId), NONE, <<>>)
        ELSE With(findElement(document, selector.css),
               LAMBDA located :
                 IF located.fault # NONE
                 THEN Handled(nodes, Nothing, located.fault, located.queries)
                 ELSE Handled(
                        Put(nodes, nodeId,
                            MemberNodeDescriptor(elementIdentifier,
                                                 elementIdentifier,
                                                 located.element, <<>>)),
                        ExpandNodeResult(found, nodeId), NONE,
                        located.queries))

expandNode(document, parsed, nodes, nodeId, elementIdentifier, parentNodeId, args) ==
    IF parentNodeId \in DOMAIN nodes
    THEN ExpandMember(document, parsed, nodes, nodeId, elementIdentifier,
                      parentNodeId, args)
    ELSE ExpandRoot(document, parsed, nodes, nodeId, elementIdentifier)

\* document.querySelector(css) finds an element; the css of the model's
\* root and argument-free selectors holds no marker.
Finds(document, css) ==
    querySelectorAll(document, DocumentNode, FALSE, Parts(css)) # <<>>

\* The callback of rootPageObjectUris.forEach: the page object is listed.
IsValidRoot(document, pageObject) ==
    /\ Truthy(pageObject.elements[ROOT].selector.css)
    /\ Finds(document, pageObject.elements[ROOT].selector.css)
    /\ \/ Cardinality(DOMAIN pageObject.elements) <= 1
       \/ \E elementName \in DOMAIN pageObject.elements \ {ROOT} :
            LET childElement == pageObject.elements[elementName]
            IN  /\ childElement.effectiveArgs = <<>>
                /\ Truthy(childElement.selector.css)
                /\ Finds(document, childElement.selector.css)

locateValidRootPageObjects(document, parsed, rootUris, nodes) ==
    IF rootUris = <<>>
    THEN Handled(nodes, ErrorResult(NO_PAGE_OBJECTS_LOADED), NONE, <<>>)
    ELSE IF \E i \in 1..Len(rootUris) :
               \/ rootUris[i] \notin DOMAIN parsed
               \/ ROOT \notin DOMAIN parsed[rootUris[i]].elements
    THEN Handled(nodes, Nothing, TypeError, <<>>)
    ELSE
    LET valid == { i \in 1..Len(rootUris) :
                     IsValidRoot(document, parsed[rootUris[i]]) }
        found == [name \in { pageObjectDisplayNameFromUri(rootUris[i]) :
                               i \in valid } |->
                    rootUris[CHOOSE i \in valid :
                        /\ pageObjectDisplayNameFromUri(rootUris[i]) = name
                        /\ \A j \in valid :
                             pageObjectDisplayNameFromUri(rootUris[j]) = name
                                 => j <= i]]
    IN  IF valid = {}
        THEN Handled(nodes, ErrorResult(NO_MATCHING_ROOT_PAGE_OBJECTS), NONE,
                     <<>>)
        ELSE Handled(nodes,
                     [type |-> ROOT_PAGE_OBJECTS_LOCATED, located |-> found],
                     NONE, <<>>)

UPDATE_CONTAINER_CONTENT_TYPE == "updateContainerContentType"
CONTAINER_CONTENT_TYPE_UPDATED == "containerContentTypeUpdated"
CONTAINER_CONTENT_TYPE_RESET == "containerContentTypeReset"
NO_SUCH_NODE == "no node found"

\* A deliberately wrong variant, for sensitivity runs:
\* every descriptor of the collection takes the type.
UpdateEveryDescriptorType(nodes, nodeId, contentType) ==
    [n \in DOMAIN nodes |-> [nodes[n] EXCEPT !.type = contentType]]

\* MemberNodeDescriptorCollection.updateMemberNodeDescriptorType
updateMemberNodeDescriptorType(nodes, nodeId, contentType) ==
    IF nodeId \in DOMAIN nodes
    THEN [nodes EXCEPT ![nodeId].type = contentType]
    ELSE nodes

updateContainerContentType(parsed, nodes, nodeId, contentType) ==
    CASE nodeId \notin DOMAIN nodes ->
           Handled(nodes, ErrorResult(NO_SUCH_NODE), NONE, <<>>)
    []   contentType = "" ->
           Handled(updateMemberNodeDescriptorType(nodes, nodeId, CONTAINER),
                   [type |-> CONTAINER_CONTENT_TYPE_RESET, nodeId |-> nodeId],
                   NONE, <<>>)
    []   contentType \notin DOMAIN parsed ->
           \* getPageObject returns undefined: allMembers.elements throws
           Handled(updateMemberNodeDescriptorType(nodes, nodeId, contentType),
                   Nothing, TypeError, <<>>)
    []   OTHER ->
           Handled(updateMemberNodeDescriptorType(nodes, nodeId, contentType),
                   [type |-> CONTAINER_CONTENT_TYPE_UPDATED, nodeId |-> nodeId,
                    selectedType |-> contentType,
                    members |-> DOMAIN getPageObjectPublicMembers(parsed[contentType])],
                   NONE, <<>>)

---------------------------------------------------------------------------
(* The definition sets the model resolves *)

\* An element whose selector and filter are chosen by a shape.
Shape == [css : BOOLEAN, selArgs : BOOLEAN, returnAll : BOOLEAN, filter : BOOLEAN]

Shaped(name, css, selArgs, matcherArgs, shape, elements, shadow) ==
    ElementDef(name, UNDEF,
               Sel(IF shape.css THEN css ELSE UNDEF,
                   IF shape.selArgs THEN selArgs ELSE <<>>,
                   shape.returnAll),
               IF shape.filter THEN Filter("getText", matcherArgs, TRUE)
               ELSE NoFilter,
               TRUE, elements, shadow)

RowShape == [css |-> TRUE, selArgs |-> TRUE, returnAll |-> TRUE, filter |-> TRUE]
CellShape == [css |-> TRUE, selArgs |-> TRUE, returnAll |-> FALSE, filter |-> FALSE]

ElementsA(rowShape, cellShape) ==
    << Leaf("btn", "[clickable]", Sel(".btn", <<>>, FALSE)),
       Shaped("row", "li:nth-child(%d)", <<"idx", "idx2">>, <<"label">>, rowShape,
              << Shaped("cell", ".cell", <<"col">>, <<"cellLabel">>, cellShape,
                        << Leaf("deep", UNDEF, Sel(".deep", <<"d">>, FALSE)) >>,
                        <<>>),
                 Leaf("last", UNDEF, Sel(".last", <<"z">>, FALSE)) >>,
              << Leaf("icon", UNDEF, Sel(".icon", <<>>, FALSE)) >>),
       Leaf("item", UNDEF, Sel(".item", <<"ai">>, FALSE)),
       Leaf("child", URI_B, Sel(".child", <<"k">>, FALSE)),
       Leaf("box", CONTAINER, Sel(".box", <<>>, FALSE)),
       Leaf("lost", URI_MISSING, Sel(".lost", <<>>, FALSE)) >>

ShadowA == << Leaf("sh", UNDEF, Sel(".sh", <<"s">>, FALSE)) >>

E(element) == StepDef(element, UNDEF, FALSE)
EA(element, apply) == StepDef(element, apply, FALSE)
A(apply) == StepDef(UNDEF, apply, FALSE)
Chain(step) == [step EXCEPT !.chain = TRUE]

WaitForStep ==
    [EA("btn", "waitFor") EXCEPT !.hasArgs = TRUE,
                                 !.predicate = << EA("cell", "getText") >>]
ContainerStep ==
    [E("box") EXCEPT !.hasArgs = TRUE, !.argType = PAGE_OBJECT,
                     !.argValue = URI_B]
ExternalStep == [A(UNDEF) EXCEPT !.applyExternal = "helper"]
TypedReturnSelf == [A("returnSelf") EXCEPT !.returnType = STRING_T]

\* Steps of a method that stays on its own page object.
LocalPool ==
    { EA("btn", "click"), E("row"), A("m1"), A("m2"), A("m3"), A("go"),
      A("returnSelf"), EA("btn", "returnSelf"), WaitForStep, ContainerStep,
      ExternalStep, TypedReturnSelf, E("ghost") }

\* Steps of a method that reaches other page objects.
ChainPool ==
    { EA("btn", "getText"), E("child"), E("lost"), E("row"),
      Chain(E("item")), Chain(A("go")), Chain(A("returnSelf")),
      Chain(EA("btn", "click")) }

MethodsA(compose) ==
    << MethodDef("m3", FALSE, <<>>, UNDEF, UNDEF,
                 << E("cell"), EA("btn", "getText") >>),
       MethodDef("m1", TRUE, <<"own">>, UNDEF, UNDEF, compose),
       MethodDef("m2", TRUE, <<"p">>, UNDEF, UNDEF, << E("row"), A("m1") >>),
       MethodDef("go", TRUE, <<"g">>, STRING_T, UNDEF, compose),
       MethodDef("broken", TRUE, <<"q">>, UNDEF, UNDEF,
                 << E("lost"), Chain(E("item")) >> \o compose) >>

PageObjectA(rowShape, cellShape, compose) ==
    PageObjectDef(TRUE, TRUE, Sel(".a-root", <<>>, FALSE),
                  ElementsA(rowShape, cellShape), ShadowA, MethodsA(compose))

ElementsB ==
    << Leaf("item", UNDEF, Sel(".item", <<"j">>, FALSE)),
       Leaf("back", URI_A, Sel(".back", <<>>, FALSE)) >>

GoB == MethodDef("go", TRUE, <<"x">>, UNDEF, UNDEF, << E("item") >>)
LoopB == MethodDef("loop", FALSE, <<>>, UNDEF, UNDEF, << E("back"), Chain(A("m3")) >>)

PageObjectB(methods) ==
    PageObjectDef(FALSE, TRUE, Sel(".b-root", <<"b">>, FALSE), ElementsB, <<>>,
                  methods)

\* The example of the specification: root selector, btn, clickIt.
PageObjectExample ==
    PageObjectDef(TRUE, TRUE, Sel(".a-root", <<>>, FALSE),
                  << Leaf("btn", "[clickable]", Sel(".btn", <<>>, FALSE)) >>,
                  <<>>,
                  << MethodDef("clickIt", FALSE, <<>>, UNDEF, UNDEF,
                               << EA("btn", "click") >>) >>)

Only(uri, pageObject) == [u \in {uri} |-> pageObject]
Both(a, b) == [u \in {URI_A, URI_B} |-> IF u = URI_A THEN a ELSE b]

ElementFamily ==
    { Only(URI_A, PageObjectA(r, c, << E("deep") >>)) : r \in Shape, c \in Shape }

LocalFamily ==
    { Only(URI_A, PageObjectA(RowShape, CellShape, compose)) :
        compose \in SeqsUpTo(LocalPool, MaxSteps) }

ChainFamily ==
    { Both(PageObjectA(RowShape, CellShape, compose), PageObjectB(methods)) :
        compose \in SeqsUpTo(ChainPool, MaxSteps),
        methods \in { << GoB >>, << GoB, LoopB >> } }

\* Method m1 with an external step, with and without a declared return.
ExternalComposes ==
    { << ExternalStep >>, << ExternalStep, EA("btn", "getText") >>,
      << EA("btn", "click"), ExternalStep >> }

ExternalFamily ==
    { Only(URI_A, [PageObjectA(RowShape, CellShape, compose)
                     EXCEPT !.methods[2].return = return]) :
        compose \in ExternalComposes, return \in {STRING_T, NUMBER} }

\* A step that waits on the element it names.
WaitForSameStep ==
    [EA("btn", "waitFor") EXCEPT !.hasArgs = TRUE,
                                 !.predicate = << EA("btn", "getText") >>]

\* Method m1 with a step that names an element twice.
WaitForFamily ==
    { Only(URI_A, PageObjectA(RowShape, CellShape, compose)) :
        compose \in { << WaitForSameStep >>, << E("btn"), WaitForSameStep >>,
                      << WaitForSameStep, A("m3") >> } }

DefinitionSets ==
    ElementFamily \cup LocalFamily \cup ChainFamily \cup ExternalFamily
        \cup WaitForFamily \cup { Only(URI_A, PageObjectExample) }

\* The key orders a definition set can have in allPageObjects.
KeyOrders(d) ==
    { o \in SeqsUpTo(DOMAIN d, Cardinality(DOMAIN d)) :
        /\ Len(o) = Cardinality(DOMAIN d)
        /\ \A u \in DOMAIN d : \E i \in 1..Len(o) : o[i] = u }

\* The method.args arrays as JSON.parse creates them.
DeclaredArgs(d) ==
    [r \in UNION { { <<u, i>> : i \in { k \in 1..Len(d[u].methods) :
                                            d[u].methods[k].hasArgs } } :
                   u \in DOMAIN d }
        |-> d[r[1]].methods[r[2]].args]

\* An artifact: its page objects as entries, in key order.
Entry(uri, definition) == [uri |-> uri, definition |-> definition]

Listing(d, o) == [i \in 1..Len(o) |-> Entry(o[i], d[o[i]])]

NotRoot(pageObject) == [pageObject EXCEPT !.root = FALSE]

\* Two artifacts that define the same URI.
DuplicateArtifacts ==
    { << <<Entry(URI_A, first)>>, <<Entry(URI_A, second)>> >> :
        first \in {PageObjectExample, NotRoot(PageObjectExample)},
        second \in {PageObjectExample, NotRoot(PageObjectExample)} }

\* The storage contents the model resolves: one artifact per definition
\* set and key order, artifacts that overlap, and no artifact at all.
ArtifactSets ==
    UNION { { << Listing(d, o) >> : o \in KeyOrders(d) } : d \in DefinitionSets }
        \cup DuplicateArtifacts \cup { <<>> }

---------------------------------------------------------------------------
(* The page objects and documents the content script is run on *)

\* The row of the specification's example, with a cell below it.
RowElement ==
    ElementDef("row", UNDEF, Sel("li:nth-child(%d)", <<"idx">>, TRUE),
               Filter("getText", <<"label">>, TRUE), TRUE,
               << Leaf("cell", UNDEF, Sel(".cell-%s", <<"col">>, FALSE)) >>,
               <<>>)

\* All list items, filtered by their text.
ItemsElement ==
    ElementDef("items", UNDEF, Sel("li", <<>>, TRUE),
               Filter("getText", <<"label">>, TRUE), TRUE, <<>>, <<>>)

\* All list items as page objects, filtered by a method of theirs.
EntriesElement ==
    ElementDef("entries", URI_B, Sel("li", <<>>, TRUE),
               Filter("getLabel", <<"label">>, TRUE), TRUE, <<>>, <<>>)

\* An ancestor whose selector takes no argument.
PanelElement ==
    ElementDef("panel", UNDEF, Sel(".panel", <<>>, FALSE), NoFilter, TRUE,
               << Leaf("tab", UNDEF, Sel(".tab", <<>>, FALSE)) >>,
               << Leaf("sh", UNDEF, Sel(".sh", <<>>, FALSE)) >>)

\* Basic elements that declare capability groups: as an array of one, as
\* an array of two, and as a plain string.
CapabilityElements ==
    << Leaf("btn", "[clickable]", Sel(".btn", <<>>, FALSE)),
       Leaf("field", "[clickable,editable]", Sel(".field", <<>>, FALSE)),
       Leaf("handle", "draggable", Sel(".handle", <<>>, FALSE)) >>

PageObjectList ==
    PageObjectDef(TRUE, TRUE, Sel(".a-root", <<>>, FALSE),
                  << RowElement, ItemsElement, EntriesElement, PanelElement >>
                      \o CapabilityElements,
                  <<>>,
                  << MethodDef("pick", TRUE, <<"p">>, UNDEF, UNDEF,
                               << E("row") >>),
                     MethodDef("open", FALSE, <<>>, UNDEF, UNDEF,
                               << E("cell") >>),
                     MethodDef("bad", FALSE, <<>>, UNDEF, UNDEF,
                               << E("ghost") >>) >>)

PageObjectEntry ==
    PageObjectDef(FALSE, TRUE, Sel("li", <<>>, FALSE), <<>>, <<>>,
                  << MethodDef("getLabel", FALSE, <<>>, UNDEF, UNDEF,
                               << EA(ROOT, "getText") >>) >>)

\* A root page object with nothing but its root selector.
PageObjectBare ==
    PageObjectDef(TRUE, TRUE, Sel(".a-root", <<>>, FALSE), <<>>, <<>>, <<>>)

\* An element declared inside an element of the same name.
PageObjectNested ==
    PageObjectDef(TRUE, TRUE, Sel(".a-root", <<>>, FALSE),
                  << ElementDef("panel", UNDEF, Sel(".panel", <<>>, FALSE),
                                NoFilter, TRUE,
                                << Leaf("panel", UNDEF,
                                        Sel(".tab", <<>>, FALSE)) >>,
                                <<>>) >>,
                  <<>>, <<>>)

\* The storage contents the content script is run on.
SessionArtifactSets ==
    { << <<Entry(URI_A, PageObjectList), Entry(URI_B, PageObjectEntry)>> >>,
      << <<Entry(URI_A, PageObjectNested)>> >>,
      << <<Entry(URI_A, PageObjectBare), Entry(URI_DEEP, PageObjectBare)>> >>,
      << <<Entry(URI_A, NotRoot(PageObjectExample))>> >>,
      <<>> }

\* The live list of the example, a tab outside and one inside the panel,
\* and an element in the panel's shadow tree.
ListDocument ==
    << Node(DocumentNode, FALSE, {<<".a-root">>}, "AppleBananaOutIn"),
       Node(1, FALSE, {<<"li">>, <<"li:nth-child(", "1", ")">>}, "Apple"),
       Node(1, FALSE, {<<"li">>, <<"li:nth-child(", "2", ")">>}, "Banana"),
       Node(3, FALSE, {<<".cell-", "a">>}, ""),
       Node(1, FALSE, {<<".tab">>}, "Out"),
       Node(1, FALSE, {<<".panel">>}, "In"),
       Node(6, FALSE, {<<".tab">>}, "In"),
       Node(6, TRUE, {<<".sh">>}, "Shadow"),
       Node(1, FALSE, {<<".btn">>, <<".field">>, <<".handle">>}, "") >>

\* A document none of the selectors matches.
EmptyDocument == << Node(DocumentNode, FALSE, {<<"p">>}, "") >>

\* The values a request gives to a parameter.
ValuesOf(name) ==
    CASE name = "idx" -> {"1", "2"}
      [] name = "label" -> {"Banana", "Cherry"}
      [] name = "col" -> {"a"}
      [] OTHER -> {"7"}

\* The args arrays in the order of the given parameter names, each
\* parameter with one of its values or with none.
ArgLists(names) ==
    { a \in [1..Len(names) -> { Arg(n, v) : n \in { names[i] : i \in 1..Len(names) },
                                            v \in {UNDEF, "1", "2", "Banana", "Cherry",
                                                  "a", "7"} }] :
        \A i \in 1..Len(names) :
            /\ a[i].name = names[i]
            /\ a[i].value \in ValuesOf(names[i]) \cup {UNDEF} }

\* The node ids of the requests, in the order the panel hands them out,
\* and an id it never gave to a node.
NodeIds == <<"n1", "n2">>
NoNodeId == "n0"

\* The member identifiers of the requests.
Identifiers ==
    {"row", "cell", "items", "entries", "panel", "tab", "sh", "btn", "field",
     "handle", "pick", "open", "bad", "ghost", URI_A, URI_B}

---------------------------------------------------------------------------
(* reloadDatabase() *)

\* Array.prototype.sort() on URIs: the code-unit order of the model's URIs.
\* The file names artifacts are imported under.
ArtifactFileNames == <<"a.jar", "b.jar">>

\* The DevTools panels that are open, one for each inspected tab.
Panels == {1, 2}

\* The array Settings.save() stores and #getSettings expands into a Map:
\* one { artifactFileName, artifactContents } for each artifact, in the
\* insertion order of the Map.
PageObjectArtifacts(names, arts) ==
    [i \in 1..Len(arts) |->
        [artifactFileName |-> names[i], artifactContents |-> arts[i]]]

UriRank(u) ==
    CASE u = URI_A -> 1 [] u = URI_B -> 2 [] u = URI_DEEP -> 3 [] OTHER -> 4

SortUris(uris) ==
    SelectSeq(uris, LAMBDA u : UriRank(u) = 1)
       \o SelectSeq(uris, LAMBDA u : UriRank(u) = 2)
       \o SelectSeq(uris, LAMBDA u : UriRank(u) = 3)
       \o SelectSeq(uris, LAMBDA u : UriRank(u) = 4)

IsRootDefinition(definition) ==
    definition.root /\ definition.hasSelector /\ Truthy(definition.selector.css)

\* The entries of all artifacts in the order the two nested loops visit them.
Entries(arts) == Flatten(arts)

\* allPageObjects[pageObjectUri] = definition: a later entry replaces an
\* earlier one of the same URI.
RECURSIVE AllPageObjects(_)
AllPageObjects(entries) ==
    IF entries = <<>> THEN EmptyMap
    ELSE Put(AllPageObjects(SubSeq(entries, 1, Len(entries) - 1)),
             entries[Len(entries)].uri, entries[Len(entries)].definition)

\* The key order of allPageObjects: a key stays where it was first added.
RECURSIVE KeyOrder(_)
KeyOrder(entries) ==
    IF entries = <<>> THEN <<>>
    ELSE LET before == KeyOrder(SubSeq(entries, 1, Len(entries) - 1))
             uri == entries[Len(entries)].uri
         IN  IF \E i \in 1..Len(before) : before[i] = uri
             THEN before ELSE Append(before, uri)

\* this.rootPageObjectUris.push(pageObjectUri), once per entry that is root.
RootPushes(entries) ==
    LET roots == SelectSeq(entries, LAMBDA e : IsRootDefinition(e.definition))
    IN  [i \in 1..Len(roots) |-> roots[i].uri]

CONTENT_SCRIPT_INITIALIZED == "initContent"
PAGE_OBJECT_DATABASE_UPDATED == "cacheUpdated"

\* updatePageObjectDatabase(updateType) before its promise is settled: no
\* message is sent yet.
UpdatePending(updateType) ==
    [type |-> NONE, updateType |-> updateType, pageObjectCount |-> 0]

\* chrome.runtime.sendMessage({ type: updateType, data: { pageObjectCount } })
DatabaseUpdated(updateType, pageObjectCount) ==
    [type |-> updateType, updateType |-> updateType,
     pageObjectCount |-> pageObjectCount]

\* chrome.runtime.lastError, the rejection of Settings.#getSettings.
LastError == "lastError"

\* No promise of the background worker has been settled yet.
NothingSettled ==
    [kind |-> NONE, sender |-> NULL, tabId |-> NULL, registered |-> NULL,
     posted |-> NULL, message |-> NONE, fault |-> NONE]

\* PanelSet and MainPanel after their constructors: showPanel() was not
\* called yet; appendTab made the first tab, the actions tab, the active
\* one (TabSet.js 160-162).
NoPanel == "none shown"
ACTIONS_TAB_ID == "tab-default-actions"
SETTINGS_TAB_ID == "tab-default-settings"

\* The state after main() has constructed its objects, for the given
\* storage contents and documents.
Start(artifactSets, documents) ==
    /\ artifacts \in artifactSets
    /\ defs = AllPageObjects(Entries(artifacts))
    /\ order = KeyOrder(Entries(artifacts))
    /\ margs = DeclaredArgs(defs)
    /\ phase = "idle"
    /\ idx = 0
    /\ cache = EmptyMap
    /\ rootPageObjectUris = <<>>
    /\ yields = <<>>
    /\ thrown = NONE
    /\ sent = UpdatePending(CONTENT_SCRIPT_INITIALIZED)
    /\ dom \in documents
    /\ selectedNodes = EmptyMap
    /\ request = Nothing
    /\ response = Nothing
    /\ fault = NONE
    /\ queries = <<>>
    /\ fileNames = SubSeq(ArtifactFileNames, 1, Len(artifacts))
    /\ snapshots = [p \in Panels |-> PageObjectArtifacts(fileNames, artifacts)]
    /\ imported = PageObjectArtifacts(fileNames, artifacts)
    /\ loads = <<>>
    /\ connections = <<>>
    /\ opened = {}
    /\ inFlight = <<>>
    /\ settled = NothingSettled
    /\ shownPanel = NoPanel
    /\ activeTab = ACTIONS_TAB_ID
    /\ activeTabs = {ACTIONS_TAB_ID}

Init == Start(ArtifactSets, {ListDocument})

\* Where the model stands when the running call of reloadDatabase() ends:
\* at the await of the next call that began meanwhile, if there is one.
Ended(outcome) == IF loads = <<>> THEN outcome ELSE "loading"

\* The calls that still await their load once the next one is followed.
Awaiting == IF loads = <<>> THEN loads ELSE Tail(loads)

\* The last message sent, with the update type of the call followed next.
Resumed(message) ==
    IF loads = <<>> THEN message
    ELSE [message EXCEPT !.updateType = Head(loads)]

\* The cache as a later call finds it: the descriptors keep the arrays of
\* the call that made them, which no later call touches.
Detached(parsed) ==
    IF DOMAIN parsed = {} THEN parsed ELSE
    [u \in DOMAIN parsed |->
        [parsed[u] EXCEPT !.methods =
            [m \in DOMAIN parsed[u].methods |->
                [parsed[u].methods[m] EXCEPT
                    !.effectiveArgs = EffectiveArgsOf(parsed[u].methods[m]),
                    !.argsRef = NoRef]]]]

\* main() and case Messages.UPDATE_PAGE_OBJECT_DATABASE, with lines 585-590:
\* clear the roots and the cache, then await settings.load().
ReloadBegin ==
    /\ phase \in {"idle", "done", "failed"}
    /\ phase' = "loading"
    /\ rootPageObjectUris' = <<>>
    /\ cache' = EmptyMap
    /\ yields' = <<>>
    /\ thrown' = NONE
    /\ sent' = UpdatePending(IF phase = "idle" THEN CONTENT_SCRIPT_INITIALIZED
                              ELSE PAGE_OBJECT_DATABASE_UPDATED)
    /\ idx' = 0
    /\ UNCHANGED <<artifacts, defs, order, margs, session, extension,
                   devtools>>

\* case Messages.UPDATE_PAGE_OBJECT_DATABASE while a call of
\* reloadDatabase() awaits its load: lines 585-590 of one more call.
ReloadOverlap ==
    /\ phase = "loading"
    /\ Len(loads) < MaxOverlap
    /\ rootPageObjectUris' = <<>>
    /\ cache' = EmptyMap
    /\ loads' = Append(loads, PAGE_OBJECT_DATABASE_UPDATED)
    /\ UNCHANGED <<artifacts, defs, order, margs, phase, idx, yields, thrown,
                   sent, session, importer, devtools>>

\* Line 590: settings.load() rejects with chrome.runtime.lastError; the
\* promise of reloadDatabase() rejects and nothing handles it.
ReloadLoadFailed ==
    /\ phase = "loading"
    /\ phase' = Ended("failed")
    /\ thrown' = LastError
    /\ sent' = Resumed(sent)
    /\ loads' = Awaiting
    /\ UNCHANGED <<artifacts, defs, order, margs, idx, cache,
                   rootPageObjectUris, yields, session, importer,
                   devtools>>

\* Lines 591-608: parse every stored source into allPageObjects, collect and
\* sort the root URIs.
ReloadLoaded ==
    /\ phase = "loading"
    /\ phase' = "resolving"
    /\ defs' = AllPageObjects(Entries(artifacts))
    /\ order' = KeyOrder(Entries(artifacts))
    /\ margs' = DeclaredArgs(defs')
    /\ rootPageObjectUris' =
          SortUris(rootPageObjectUris \o RootPushes(Entries(artifacts)))
    /\ cache' = Detached(cache)
    /\ idx' = 0
    /\ yields' = <<>>
    /\ thrown' = NONE
    /\ UNCHANGED <<artifacts, sent, session, extension, devtools>>

\* Lines 613-615: one iteration of the loop over allPageObjects.
ResolveNext ==
    /\ phase = "resolving"
    /\ idx < Len(order)
    /\ \E r \in { parsePageObject(order[idx + 1],
                    [margs |-> margs, cache |-> cache, yields |-> yields,
                     thrown |-> NONE], 0) } :
           /\ margs' = r.st.margs
           /\ cache' = r.st.cache
           /\ yields' = r.st.yields
           /\ thrown' = r.st.thrown
           /\ phase' = IF r.st.thrown # NONE THEN Ended("failed")
                       ELSE "resolving"
           /\ idx' = IF r.st.thrown # NONE THEN idx ELSE idx + 1
           /\ sent' = IF r.st.thrown # NONE THEN Resumed(sent) ELSE sent
           /\ loads' = IF r.st.thrown # NONE THEN Awaiting ELSE loads
    /\ UNCHANGED <<artifacts, defs, order, rootPageObjectUris, session,
                   importer, devtools>>

\* Line 616 and content_main.js 300-302: return the number of parsed page
\* objects; updatePageObjectDatabase() sends it on.
ReloadReturn ==
    /\ phase = "resolving"
    /\ idx = Len(order)
    /\ phase' = Ended("done")
    /\ sent' = Resumed(DatabaseUpdated(sent.updateType,
                                       Cardinality(DOMAIN cache)))
    /\ loads' = Awaiting
    /\ UNCHANGED <<artifacts, defs, order, margs, idx, cache,
                   rootPageObjectUris, yields, thrown, session, importer,
                   devtools>>

Next ==
    \/ ReloadBegin
    \/ ReloadLoadFailed
    \/ ReloadLoaded
    \/ ResolveNext
    \/ ReloadReturn

Spec == Init /\ [][Next]_vars

\* The reload as the content script runs it: the listener may start a call
\* while the call of main() awaits its load.
OverlapInit == Start(SessionArtifactSets, {EmptyDocument})

OverlapNext ==
    \/ ReloadBegin
    \/ ReloadOverlap
    \/ ReloadLoadFailed
    \/ ReloadLoaded
    \/ ResolveNext
    \/ ReloadReturn

Overlap == OverlapInit /\ [][OverlapNext]_vars

---------------------------------------------------------------------------
(* Importing and removing artifacts in the panels *)

\* Map.has(artifactFileName)
HasArtifact(stored, artifactFileName) ==
    \E i \in 1..Len(stored) : stored[i].artifactFileName = artifactFileName

\* Map.delete(artifactFileName)
DeleteArtifact(stored, artifactFileName) ==
    SelectSeq(stored, LAMBDA a : a.artifactFileName # artifactFileName)

\* Map.set(artifactFileName, pageObjects): a key that is present keeps its
\* place, a new key goes to the end.
SetArtifact(stored, artifactFileName, pageObjects) ==
    IF HasArtifact(stored, artifactFileName)
    THEN [i \in 1..Len(stored) |->
            IF stored[i].artifactFileName = artifactFileName
            THEN [stored[i] EXCEPT !.artifactContents = pageObjects]
            ELSE stored[i]]
    ELSE Append(stored, [artifactFileName |-> artifactFileName,
                         artifactContents |-> pageObjects])

\* ArtifactImporter.#storePageObjectsToLocalStorage, on the Map it loaded.
storePageObjects(stored, artifactFileName, pageObjects) ==
    SetArtifact(IF HasArtifact(stored, artifactFileName)
                THEN DeleteArtifact(stored, artifactFileName)
                ELSE stored,
                artifactFileName, pageObjects)

FileNamesOf(stored) == [i \in 1..Len(stored) |-> stored[i].artifactFileName]
ContentsOf(stored) == [i \in 1..Len(stored) |-> stored[i].artifactContents]

\* chrome.storage.local.set({ ..., pageObjectArtifacts }) of Settings.save()
Save(stored) ==
    /\ fileNames' = FileNamesOf(stored)
    /\ artifacts' = ContentsOf(stored)

\* The artifacts a user imports: each defines po/a, in its own way.
ImportedContents ==
    { << Entry(URI_A, PageObjectExample) >>,
      << Entry(URI_A, NotRoot(PageObjectExample)) >> }

\* What the panels' handlers leave alone: the content script.
contentScript ==
    <<defs, order, margs, phase, idx, cache, rootPageObjectUris, yields,
      thrown, sent, session>>

\* ArtifactImporter.#importArtifact in panel p: load the settings, store
\* the artifact read from the file, save; then onImportCompleted, which
\* has the settings tab of the panel load the settings again.
ImportArtifact ==
    \E p \in Panels, name \in { ArtifactFileNames[i] : i \in 1..Len(ArtifactFileNames) },
       pageObjects \in ImportedContents :
        \E stored \in { storePageObjects(PageObjectArtifacts(fileNames, artifacts),
                                         name, pageObjects) } :
            /\ Save(stored)
            /\ snapshots' = [snapshots EXCEPT ![p] = stored]
            /\ imported' = storePageObjects(imported, name, pageObjects)
            /\ UNCHANGED <<contentScript, loads, devtools>>

\* onRemoveButtonClicked of a tile of panel p: delete the artifact from
\* the settings the tab holds and save them; then onImportCompleted.
RemoveArtifact ==
    \E p \in Panels :
        \E name \in { snapshots[p][i].artifactFileName : i \in 1..Len(snapshots[p]) } :
            \E stored \in { DeleteArtifact(snapshots[p], name) } :
                /\ Save(stored)
                /\ snapshots' = [snapshots EXCEPT ![p] = stored]
                /\ imported' = DeleteArtifact(imported, name)
                /\ UNCHANGED <<contentScript, loads, devtools>>

\* onClearAllImports of panel p: clear the Map the tab holds and save.
ClearAllImports ==
    \E p \in Panels :
        /\ Save(<<>>)
        /\ snapshots' = [snapshots EXCEPT ![p] = <<>>]
        /\ imported' = <<>>
        /\ UNCHANGED <<contentScript, loads, devtools>>

\* A fresh installation: nothing is stored when the panels open.
ImportsInit == Start({ <<>> }, {EmptyDocument})

ImportsNext ==
    \/ ImportArtifact
    \/ RemoveArtifact
    \/ ClearAllImports
    \/ ReloadBegin
    \/ ReloadLoadFailed
    \/ ReloadLoaded
    \/ ResolveNext
    \/ ReloadReturn

Imports == ImportsInit /\ [][ImportsNext]_vars

---------------------------------------------------------------------------
(* The background service worker *)

\* The names the DevTools pages connect under, a new one for every
\* connection (BackgroundConnection.js 103-105), and the browser tabs.
PortNames == {"page-1", "page-2", "page-3"}
TabIds == {"tab-1", "tab-2"}

\* The chrome.tabs.sendMessage promises the model keeps unsettled at once.
MaxInFlight == 2

INITIALIZE_PANEL == "init"
RECONNECT_PANEL == "reconnect"
FORWARDED == "forwarded"
NO_CONTENT_SCRIPT_CONNECTION == "no remote end"
DisconnectedPort == "Error: Attempting to use a disconnected port object"

\* connections[name] is an object: the name is a key of connections.
HasConnection(conns, name) ==
    \E i \in 1..Len(conns) : conns[i].name = name

\* connections[name] for a name that is a key. The port of a connection is
\* known by the name it was opened under.
ConnectionOf(conns, name) ==
    conns[CHOOSE i \in 1..Len(conns) : conns[i].name = name]

\* connections[sender.name] = { port: port, tabId: message.data.tabId }
SetConnection(conns, name, tabId) ==
    IF ~HasConnection(conns, name)
    THEN Append(conns, [name |-> name, tabId |-> tabId])
    ELSE [i \in 1..Len(conns) |->
            IF conns[i].name = name THEN [name |-> name, tabId |-> tabId]
            ELSE conns[i]]

\* delete connections[port.name]
DeleteConnection(conns, name) ==
    SelectSeq(conns, LAMBDA c : c.name # name)

getDevToolsTabNameForTabId(conns, tabId) ==
    IF \E i \in 1..Len(conns) : conns[i].tabId = tabId
    THEN conns[CHOOSE i \in 1..Len(conns) :
                 /\ conns[i].tabId = tabId
                 /\ \A j \in 1..Len(conns) : conns[j].tabId = tabId => i <= j].name
    ELSE NULL

getPortForTab(conns, tabId) ==
    IF getDevToolsTabNameForTabId(conns, tabId) # NULL
    THEN getDevToolsTabNameForTabId(conns, tabId)
    ELSE NULL

\* What settling a promise did: the port a message was posted to, if any,
\* the port registered for the tab at that time, and the exception that
\* left the handlers.
Settled(entry, conns, posted, message, thrownFault) ==
    [kind |-> entry.kind, sender |-> entry.sender, tabId |-> entry.tabId,
     registered |-> getPortForTab(conns, entry.tabId),
     posted |-> posted, message |-> message, fault |-> thrownFault]

\* The .catch handlers: line 55 posts to the port of the listener's
\* closure, line 80 to connections[sender.name].port.
Rejected(entry, conns) ==
    IF entry.kind = INITIALIZE_PANEL
    THEN IF ~HasConnection(conns, entry.sender)
         THEN Settled(entry, conns, NULL, NONE, DisconnectedPort)
         ELSE Settled(entry, conns, entry.sender, ERROR, NONE)
    ELSE IF ~HasConnection(conns, entry.sender)
    THEN Settled(entry, conns, NULL, NONE, TypeError)
    ELSE Settled(entry, conns, ConnectionOf(conns, entry.sender).name, ERROR,
                 NONE)

\* The .then handler of lines 74-79; what it throws goes to the .catch
\* handler chained behind it.
Fulfilled(entry, conns, hasResponse) ==
    IF entry.kind = INITIALIZE_PANEL \/ ~hasResponse
    THEN Settled(entry, conns, NULL, NONE, NONE)
    ELSE IF getPortForTab(conns, entry.tabId) = NULL
    THEN Rejected(entry, conns)
    ELSE Settled(entry, conns, getPortForTab(conns, entry.tabId), FORWARDED,
                 NONE)

RemoveAt(seq, k) ==
    SubSeq(seq, 1, k - 1) \o SubSeq(seq, k + 1, Len(seq))

\* chrome.runtime.onConnect and the first message of the port, lines 48-58:
\* a DevTools page of a tab that has no connection connects.
ConnectPanel ==
    /\ \E name \in PortNames \ opened, tabId \in TabIds,
          type \in {INITIALIZE_PANEL, RECONNECT_PANEL} :
         /\ getPortForTab(connections, tabId) = NULL
         /\ type = INITIALIZE_PANEL => Len(inFlight) < MaxInFlight
         /\ opened' = opened \cup {name}
         /\ connections' = SetConnection(connections, name, tabId)
         /\ inFlight' =
               IF type = INITIALIZE_PANEL
               THEN Append(inFlight, [kind |-> INITIALIZE_PANEL,
                                      sender |-> name, tabId |-> tabId])
               ELSE inFlight
    /\ UNCHANGED <<settled, contentScript, artifacts, extension, panelSet>>

\* Lines 62-73: a message of a connected page is sent on to its tab.
ForwardMessage ==
    /\ Len(inFlight) < MaxInFlight
    /\ \E i \in 1..Len(connections) :
           inFlight' = Append(inFlight, [kind |-> FORWARDED,
                                         sender |-> connections[i].name,
                                         tabId |-> connections[i].tabId])
    /\ UNCHANGED <<connections, opened, settled, contentScript, artifacts,
                   extension, panelSet>>

\* Lines 88-90: the port of a page disconnects.
DisconnectPort ==
    /\ \E i \in 1..Len(connections) :
           connections' = DeleteConnection(connections, connections[i].name)
    /\ UNCHANGED <<opened, inFlight, settled, contentScript, artifacts,
                   extension, panelSet>>

\* The promise of chrome.tabs.sendMessage is fulfilled, with the response
\* of the content script or with none.
ResponseArrives ==
    /\ \E k \in 1..Len(inFlight), hasResponse \in BOOLEAN :
         /\ settled' = Fulfilled(inFlight[k], connections, hasResponse)
         /\ inFlight' = RemoveAt(inFlight, k)
    /\ UNCHANGED <<connections, opened, contentScript, artifacts, extension,
                   panelSet>>

\* The promise is rejected: the tab has no content script to answer.
NoContentScript ==
    /\ \E k \in 1..Len(inFlight) :
         /\ settled' = Rejected(inFlight[k], connections)
         /\ inFlight' = RemoveAt(inFlight, k)
    /\ UNCHANGED <<connections, opened, contentScript, artifacts, extension,
                   panelSet>>

BackgroundInit == Start({ <<>> }, {EmptyDocument})

BackgroundNext ==
    \/ ConnectPanel
    \/ ForwardMessage
    \/ DisconnectPort
    \/ ResponseArrives
    \/ NoContentScript

Background == BackgroundInit /\ [][BackgroundNext]_vars

---------------------------------------------------------------------------
(* The panels and the tab set of the DevTools page *)

NO_CONNECTION_PANEL == "no-connection-panel"
IMPORT_PANEL == "import-panel"
LOADING_PANEL == "loading-panel"
START_PANEL == "start-panel"
MAIN_PANEL == "main-panel"
BROWSER_PAGE_RELOADED == "tabNavigated"

TabIdentifiers == {ACTIONS_TAB_ID, SETTINGS_TAB_ID}

\* Tab.activate(): the list item gets slds-is-active, the content slds-show.
activate(active, tab) == active \cup {tab}

\* Tab.deactivate()
deactivate(active, tab) == active \ {tab}

\* TabSet.#setActiveTab: this.#activeTab?.deactivate(); tab.activate().
setActiveTab(active, current, tab) ==
    activate(IF current = NULL THEN active ELSE deactivate(active, current),
             tab)

\* tab.onTabLinkClicked = tab => this.#setActiveTab(tab): a click on a tab
\* link of the main panel.
TabLinkClicked ==
    /\ shownPanel = MAIN_PANEL
    /\ \E tab \in TabIdentifiers :
         /\ activeTabs' = setActiveTab(activeTabs, activeTab, tab)
         /\ activeTab' = tab
    /\ UNCHANGED <<shownPanel, contentScript, artifacts, extension, worker>>

\* panel.js 25-29: the Start button. The message it posts is one of those
\* ForwardMessage takes up.
StartClick ==
    /\ shownPanel = START_PANEL
    /\ shownPanel' = MAIN_PANEL
    /\ activeTabs' = activate(activeTabs, ACTIONS_TAB_ID)
    /\ UNCHANGED <<activeTab, contentScript, artifacts, extension, worker>>

\* panel.js 20 and 32: an import begins, from the import panel or from the
\* importer of the settings tab.
ImportStart ==
    /\ \/ shownPanel = IMPORT_PANEL
       \/ shownPanel = MAIN_PANEL /\ SETTINGS_TAB_ID \in activeTabs
    /\ shownPanel' = LOADING_PANEL
    /\ UNCHANGED <<activeTab, activeTabs, contentScript, artifacts, extension,
                   worker>>

\* panel.js 77-85: the content script's message after a reload, relayed
\* by the background worker.
DatabaseUpdatedReceived ==
    /\ sent.type \in {CONTENT_SCRIPT_INITIALIZED, PAGE_OBJECT_DATABASE_UPDATED}
    /\ shownPanel' = IF sent.pageObjectCount # 0 THEN START_PANEL
                     ELSE IMPORT_PANEL
    /\ UNCHANGED <<activeTab, activeTabs, contentScript, artifacts, extension,
                   worker>>

\* panel.js 86-88: the inspected tab navigated.
BrowserPageReloaded ==
    /\ shownPanel' = START_PANEL
    /\ UNCHANGED <<activeTab, activeTabs, contentScript, artifacts, extension,
                   worker>>

\* panel.js 104-108 and 117-120: an error other than "no root matched".
ErrorReceived ==
    /\ shownPanel' = NO_CONNECTION_PANEL
    /\ UNCHANGED <<activeTab, activeTabs, contentScript, artifacts, extension,
                   worker>>

PageInit == Start(SessionArtifactSets, {EmptyDocument})

PageNext ==
    \/ ReloadBegin
    \/ ReloadLoadFailed
    \/ ReloadLoaded
    \/ ResolveNext
    \/ ReloadReturn
    \/ DatabaseUpdatedReceived
    \/ BrowserPageReloaded
    \/ ErrorReceived
    \/ ImportStart
    \/ StartClick
    \/ TabLinkClicked

DevToolsPage == PageInit /\ [][PageNext]_vars

---------------------------------------------------------------------------
(* The message listener of the content script *)

ExpandNodeRequest(nodeId, elementIdentifier, parentNodeId, args) ==
    [type |-> EXPAND_NODE, nodeId |-> nodeId, element |-> elementIdentifier,
     parentNodeId |-> parentNodeId, args |-> args]

\* The member a request names, when its parent node is of a known page
\* object that has it.
NamesMember(nodes, parsed, elementIdentifier, parentNodeId) ==
    /\ parentNodeId \in DOMAIN nodes
    /\ nodes[parentNodeId].type \in DOMAIN parsed
    /\ elementIdentifier \in
           DOMAIN parsed[nodes[parentNodeId].type].methods
               \cup DOMAIN parsed[nodes[parentNodeId].type].elements

NamedMember(nodes, parsed, elementIdentifier, parentNodeId) ==
    LET parentPageObject == parsed[nodes[parentNodeId].type]
    IN  IF elementIdentifier \in DOMAIN parentPageObject.methods
        THEN parentPageObject.methods[elementIdentifier]
        ELSE parentPageObject.elements[elementIdentifier]

\* The args a request carries: those of the member it names, in the order
\* of its effectiveArgs.
RequestArgs(nodes, parsed, elementIdentifier, parentNodeId) ==
    IF NamesMember(nodes, parsed, elementIdentifier, parentNodeId)
    THEN LET member == NamedMember(nodes, parsed, elementIdentifier,
                                   parentNodeId)
         IN  ArgLists(IF member.category = METHOD THEN EffectiveArgsOf(member)
                      ELSE member.effectiveArgs)
    ELSE { <<>> }

KnownNodeIds == { NodeIds[i] : i \in 1..Len(NodeIds) }

\* The id of the request's node: the panel gives every node an id of its
\* own, so the next one not yet in the collection; none when all the ids
\* of the model are taken.
FreshNodeIds(nodes) ==
    LET unused == { i \in 1..Len(NodeIds) : NodeIds[i] \notin DOMAIN nodes }
    IN  IF unused = {} THEN {}
        ELSE { NodeIds[CHOOSE i \in unused : \A j \in unused : i <= j] }

\* The listener runs between the turns of reloadDatabase(), which yields
\* only at its await.
ListenerRuns == phase # "resolving"

\* case Messages.EXPAND_NODE
ExpandNode ==
    /\ ListenerRuns
    /\ \E nodeId \in FreshNodeIds(selectedNodes),
          parentNodeId \in KnownNodeIds \cup {NoNodeId},
          elementIdentifier \in Identifiers :
         \E args \in RequestArgs(selectedNodes, cache, elementIdentifier,
                                 parentNodeId) :
           \E handled \in { expandNode(dom, cache, selectedNodes, nodeId,
                                       elementIdentifier, parentNodeId, args) } :
               /\ request' = ExpandNodeRequest(nodeId, elementIdentifier,
                                               parentNodeId, args)
               /\ selectedNodes' = handled.nodes
               /\ response' = handled.response
               /\ fault' = handled.fault
               /\ queries' = handled.queries
    /\ UNCHANGED <<artifacts, defs, order, margs, phase, idx, cache,
                   rootPageObjectUris, yields, thrown, sent, dom, extension,
                   devtools>>

\* case Messages.LOCATE_ROOT_PAGE_OBJECTS
LocateRootPageObjects ==
    /\ ListenerRuns
    /\ \E handled \in { locateValidRootPageObjects(dom, cache,
                            rootPageObjectUris, selectedNodes) } :
           /\ request' = [type |-> LOCATE_ROOT_PAGE_OBJECTS]
           /\ selectedNodes' = handled.nodes
           /\ response' = handled.response
           /\ fault' = handled.fault
           /\ queries' = handled.queries
    /\ UNCHANGED <<artifacts, defs, order, margs, phase, idx, cache,
                   rootPageObjectUris, yields, thrown, sent, dom, extension,
                   devtools>>

\* The content types a panel asks for: none, page objects, and a URI that
\* no artifact defines.
ContentTypes == {"", URI_B, URI_MISSING}

\* case Messages.UPDATE_CONTAINER_CONTENT_TYPE
UpdateContainerContentType ==
    /\ ListenerRuns
    /\ \E nodeId \in KnownNodeIds \cup {NoNodeId}, contentType \in ContentTypes :
         \E handled \in { updateContainerContentType(cache, selectedNodes,
                                                     nodeId, contentType) } :
             /\ request' = [type |-> UPDATE_CONTAINER_CONTENT_TYPE,
                            nodeId |-> nodeId, contentType |-> contentType]
             /\ selectedNodes' = handled.nodes
             /\ response' = handled.response
             /\ fault' = handled.fault
             /\ queries' = handled.queries
    /\ UNCHANGED <<artifacts, defs, order, margs, phase, idx, cache,
                   rootPageObjectUris, yields, thrown, sent, dom, extension,
                   devtools>>

SessionInit == Start(SessionArtifactSets, {ListDocument, EmptyDocument})

SessionNext ==
    \/ ReloadBegin
    \/ ReloadLoadFailed
    \/ ReloadLoaded
    \/ ResolveNext
    \/ ReloadReturn
    \/ ExpandNode
    \/ LocateRootPageObjects

Session == SessionInit /\ [][SessionNext]_vars

\* The session in which the panel also selects the content of containers.
ContainerArtifactSets ==
    { << <<Entry(URI_A, PageObjectExample), Entry(URI_B, PageObjectEntry)>> >> }

ContainersInit == Start(ContainerArtifactSets, {ListDocument})

ContainersNext ==
    \/ ReloadBegin
    \/ ReloadLoadFailed
    \/ ReloadLoaded
    \/ ResolveNext
    \/ ReloadReturn
    \/ ExpandNode
    \/ LocateRootPageObjects
    \/ UpdateContainerContentType

Containers == ContainersInit /\ [][ContainersNext]_vars

---------------------------------------------------------------------------
(* Properties *)

\* The root-to-leaf chains of element definitions of a page object.
RECURSIVE PathsUnder(_, _)
PathsUnder(list, prefix) ==
    UNION { {Append(prefix, list[i])}
                \cup PathsUnder(list[i].elements \o list[i].shadow,
                                Append(prefix, list[i])) :
            i \in 1..Len(list) }

ElementPaths(pageObject) ==
    PathsUnder(pageObject.elements \o pageObject.shadow, <<>>)

Last(seq) == seq[Len(seq)]

\* What an element definition adds to the argument list that is carried
\* down: its selector's args when the selector has a css, then its filter's
\* matcher args when that selector returns all.
OwnArgs(elementDef) ==
    IF Truthy(elementDef.selector.css)
    THEN elementDef.selector.args \o
         (IF elementDef.selector.returnAll /\ elementDef.filter.present
          THEN elementDef.filter.matcherArgs ELSE <<>>)
    ELSE <<>>

MethodIndexes(uri) == 1..Len(defs[uri].methods)

\* The methods of a parsed page object that were resolved by walking steps,
\* as indexes into the definition.
WalkedMethods(parsed) ==
    { i \in MethodIndexes(parsed.uri) :
        /\ defs[parsed.uri].methods[i].name \in DOMAIN parsed.methods
        /\ ~Truthy(defs[parsed.uri].methods[i].returnType) }

C2_Original_SameParseEachTime ==
    \A i, j \in 1..Len(yields) :
        yields[i].uri = yields[j].uri => yields[i] = yields[j]

\* C3 as stated: resolution never recurses without bound, so the pass never
\* ends in "Maximum call stack size exceeded".
C3_Original_ResolutionTerminates == thrown # RangeError

\* C4 as stated: once the pass has finished, a step-walked method's
\* effectiveArgs is its declared args followed by the effectiveArgs of each
\* referenced element, each contribution once.
C4_Original_ContributionsOnce ==
    phase = "done" =>
        \A u \in DOMAIN cache :
            \A i \in WalkedMethods(cache[u]) :
                LET method == defs[u].methods[i]
                    descriptor == cache[u].methods[method.name]
                IN  EffectiveArgsOf(descriptor)
                       = method.args \o ReferencedArgs(descriptor.elements)

\* A parsed page object shows each method that declares a returnType as
\* declared: that type, no referenced element, the declared args.
DeclaredAsIs(parsed) ==
    \A i \in MethodIndexes(parsed.uri) :
        LET method == defs[parsed.uri].methods[i]
        IN  (Truthy(method.returnType) /\ method.name \in DOMAIN parsed.methods)
            => /\ parsed.methods[method.name].type = method.returnType
               /\ parsed.methods[method.name].elements = <<>>
               /\ parsed.methods[method.name].effectiveArgs = method.args
               /\ EffectiveArgsOf(parsed.methods[method.name]) = method.args

\* C5: a method that declares a returnType is not step-walked: its type is
\* the declared one, it references no element and its effectiveArgs are its
\* declared args, in every parse that was returned and in the cache.
C5_DeclaredReturnTypeNotWalked ==
    /\ \A u \in DOMAIN cache : DeclaredAsIs(cache[u])
    /\ \A k \in 1..Len(yields) : DeclaredAsIs(yields[k])

\* C5 witness: a resolved method with a declared returnType and a compose
\* array of two steps, the first naming an element with selector args.
C5_Witness ==
    /\ phase = "done"
    /\ URI_A \in DOMAIN cache
    /\ "go" \in DOMAIN cache[URI_A].methods
    /\ \E i \in MethodIndexes(URI_A) :
          /\ defs[URI_A].methods[i].name = "go"
          /\ Truthy(defs[URI_A].methods[i].returnType)
          /\ Len(defs[URI_A].methods[i].compose) = 2
          /\ defs[URI_A].methods[i].compose[1] = E("row")

\* What a step looks up in a given parsed page object, read off the
\* descriptors of that page object: the elements it references ...
LookupElements(parsed, step) ==
    IF Truthy(step.element)
    THEN IF step.element \in {ROOT, DOCUMENT, NAVIGATION} THEN <<>>
         ELSE IF step.element \in DOMAIN parsed.elements
         THEN << parsed.elements[step.element] >>
         ELSE << EmptyObject >>
    ELSE IF Truthy(step.apply) /\ step.apply # "returnSelf"
            /\ step.apply \in DOMAIN parsed.methods
    THEN parsed.methods[step.apply].elements
    ELSE <<>>

\* ... and the type it yields.
IntrinsicNames == { intrinsicMethods[i].name : i \in 1..Len(intrinsicMethods) }

DeclaredIntrinsicType(name) ==
    intrinsicMethods[CHOOSE i \in 1..Len(intrinsicMethods) :
                        /\ intrinsicMethods[i].name = name
                        /\ \A j \in 1..(i - 1) : intrinsicMethods[j].name # name].type

LookupType(parsed, step) ==
    LET elementType ==
            IF ~Truthy(step.element) \/ step.element = ROOT THEN ""
            ELSE IF step.element \in {DOCUMENT, NAVIGATION} THEN step.element
            ELSE IF step.element \in DOMAIN parsed.elements
                    /\ Truthy(parsed.elements[step.element].type)
            THEN parsed.elements[step.element].type
            ELSE BASIC
    IN  IF ~Truthy(step.apply) THEN elementType
        ELSE IF Truthy(step.element)
        THEN IF step.apply \in IntrinsicNames
             THEN DeclaredIntrinsicType(step.apply) ELSE elementType
        ELSE IF step.apply = "returnSelf" THEN VOID
        ELSE IF step.apply \in DOMAIN parsed.methods
        THEN parsed.methods[step.apply].type
        ELSE ""

\* A plain step: no waitFor, no applyExternal, no returnType or args of its own.
IsPlainStep(step) ==
    /\ ~Truthy(step.applyExternal)
    /\ ~Truthy(step.returnType)
    /\ ~step.hasArgs
    /\ step.apply # "waitFor"

\* A first step that only names an element of the page object.
NamesElementOf(parsed, step) ==
    /\ IsPlainStep(step)
    /\ ~step.chain
    /\ ~Truthy(step.apply)
    /\ Truthy(step.element)
    /\ step.element \in DOMAIN parsed.elements
    /\ step.element # ROOT

NonPageObjectTypes ==
    {VOID, STRING_T, NUMBER, BOOLEAN_T, BASIC} \cup CapabilityArrays

PageObjectUris == {URI_A, URI_B, URI_MISSING, URI_DEEP}

\* The two-step methods "first an element or intrinsic step, then a chain
\* step" of a parsed page object, as indexes.
ChainSecond(parsed) ==
    { i \in WalkedMethods(parsed) :
        LET compose == defs[parsed.uri].methods[i].compose
        IN  /\ Len(compose) = 2
            /\ IsPlainStep(compose[1]) /\ ~compose[1].chain
            /\ Truthy(compose[1].element)
            /\ compose[1].element \in DOMAIN parsed.elements
            /\ compose[1].element # ROOT
            /\ IsPlainStep(compose[2]) /\ compose[2].chain }

\* The method a two-step walk yields when its second step is looked up in
\* the parsed page object `target`.
SecondLookedUpIn(parsed, target, i) ==
    LET compose == defs[parsed.uri].methods[i].compose
        first == LookupElements(parsed, compose[1])
    IN  [type |-> LookupType(target, compose[2]),
         elements |-> first \o UnreferencedElements(
                                   LookupElements(target, compose[2]), first)]

Resolved(parsed, i) ==
    LET descriptor == parsed.methods[defs[parsed.uri].methods[i].name]
    IN  [type |-> descriptor.type, elements |-> descriptor.elements]

\* C6: when a chain step follows a step whose resolved type is a page-object
\* URI U of the definition set, its element and apply lookups are made in
\* U's resolved definition, not in the page object that owns the method.
C6_ChainLooksUpInTarget ==
    \A u \in DOMAIN cache :
        \A i \in ChainSecond(cache[u]) :
            LET target == LookupType(cache[u],
                                     defs[u].methods[i].compose[1])
            IN  target \in DOMAIN defs =>
                   /\ target \in DOMAIN cache
                   /\ Resolved(cache[u], i)
                         = SecondLookedUpIn(cache[u], cache[target], i)

\* C6 witness: po/a's m1 = [{element: child}, {chain, element: item}] is
\* resolved, child has type po/b, and the element it references second is
\* po/b's item (selector arg j), not po/a's item (selector arg ai).
C6_Witness ==
    /\ phase = "done"
    /\ {URI_A, URI_B} \subseteq DOMAIN cache
    /\ \E i \in ChainSecond(cache[URI_A]) :
          /\ defs[URI_A].methods[i].name = "m1"
          /\ defs[URI_A].methods[i].compose = << E("child"), Chain(E("item")) >>
    /\ "m1" \in DOMAIN cache[URI_A].methods
    /\ Len(cache[URI_A].methods["m1"].elements) = 2
    /\ cache[URI_A].methods["m1"].elements[2] = cache[URI_B].elements["item"]
    /\ cache[URI_A].methods["m1"].elements[2] # cache[URI_A].elements["item"]

\* C7 as stated: a chain step after a step whose resolved type is not a
\* page-object URI is interpreted against the method's own page object as
\* if chain were absent, and its type and elements contribute.
C7_Original_ChainAfterNonPageObjectIsNoOp ==
    \A u \in DOMAIN cache :
        \A i \in ChainSecond(cache[u]) :
            LookupType(cache[u], defs[u].methods[i].compose[1])
                    \in NonPageObjectTypes
               => Resolved(cache[u], i)
                     = SecondLookedUpIn(cache[u], cache[u], i)

\* C8 as stated: after a chain step whose target URI is not in the
\* definition set no further step of the method is interpreted: the method
\* keeps the type and the referenced elements it had before that step.
C8_Original_MissingTargetAbortsMethod ==
    \A u \in DOMAIN cache :
        \A i \in WalkedMethods(cache[u]) :
            LET compose == defs[u].methods[i].compose
            IN  (/\ Len(compose) >= 2
                 /\ NamesElementOf(cache[u], compose[1])
                 /\ LookupType(cache[u], compose[1]) \in PageObjectUris
                 /\ LookupType(cache[u], compose[1]) \notin DOMAIN defs
                 /\ compose[2].chain)
                => Resolved(cache[u], i)
                      = [type |-> LookupType(cache[u], compose[1]),
                         elements |-> LookupElements(cache[u], compose[1])]

\* The last step of a walked method names a declared element and applies an
\* intrinsic operation.
EndsWithIntrinsicOnElement(parsed, i) ==
    LET compose == defs[parsed.uri].methods[i].compose
    IN  /\ Len(compose) >= 1
        /\ Truthy(Last(compose).element)
        /\ Truthy(Last(compose).apply)
        /\ Last(compose).apply \in IntrinsicNames

Occurrences(elements, name) ==
    Cardinality({ k \in 1..Len(elements) : elements[k].name = name })

\* The example of the specification.
ExampleResolved ==
    (URI_A \in DOMAIN cache /\ defs[URI_A] = PageObjectExample) =>
        /\ DOMAIN cache[URI_A].elements = {ROOT, "btn"}
        /\ DOMAIN cache[URI_A].methods = {"clickIt"}
        /\ cache[URI_A].methods["clickIt"].type = VOID
        /\ cache[URI_A].methods["clickIt"].elements
              = << cache[URI_A].elements["btn"] >>
        /\ EffectiveArgsOf(cache[URI_A].methods["clickIt"]) = <<>>

C10_Original_ReturnSelfIsVoid ==
    \A u \in DOMAIN cache :
        \A i \in WalkedMethods(cache[u]) :
            LET compose == defs[u].methods[i].compose
            IN  (/\ Len(compose) >= 1
                 /\ Last(compose).apply = "returnSelf"
                 /\ ~Truthy(Last(compose).returnType))
                => cache[u].methods[defs[u].methods[i].name].type = VOID

---------------------------------------------------------------------------
(* Properties of the element finder, under Session *)

\* The last request expanded a member of the page object of its parent node.
ExpandedMember ==
    /\ request.type = EXPAND_NODE
    /\ NamesMember(selectedNodes, cache, request.element, request.parentNodeId)

\* That member's descriptor.
Member ==
    NamedMember(selectedNodes, cache, request.element, request.parentNodeId)

\* The node the parent of the request stands for.
ParentElement == selectedNodes[request.parentNodeId].element

\* The request was answered and its node is in the collection.
Answered ==
    /\ fault = NONE
    /\ response.type = EXPAND_NODE_RESULT
    /\ request.nodeId \in DOMAIN selectedNodes

\* The element the request's node stands for.
ResolvedElement == selectedNodes[request.nodeId].element

\* The value the request binds to a parameter, undefined when it binds none.
ValueOf(args, name) ==
    IF \E i \in 1..Len(args) : args[i].name = name /\ Truthy(args[i].value)
    THEN (args[CHOOSE i \in 1..Len(args) :
                   args[i].name = name /\ Truthy(args[i].value)]).value
    ELSE UNDEF

\* A returnAll element with the filter of the example: stringEquals on one
\* argument, apply getText, findFirst.
HasTextFilter(descriptor) ==
    /\ descriptor.category # METHOD
    /\ descriptor.selector.returnAll
    /\ descriptor.filter.present
    /\ descriptor.filter.matcherType = "stringEquals"
    /\ descriptor.filter.apply = "getText"
    /\ descriptor.filter.findFirst
    /\ Len(descriptor.filter.matcherArgs) = 1

\* C11 as stated: a returnAll element with a {stringEquals, getText,
\* findFirst} filter, expanded under the root of the live list with a value
\* bound to the matcher argument, resolves to the node whose text is that
\* value. The code leaves the marker of an argument without a value in the
\* selector and queries nothing, and it compares no text for a basic
\* element, whose descriptor has no lastStepApply.
C11_Original_FilterResolvesToText ==
    ( /\ ExpandedMember
      /\ HasTextFilter(Member)
      /\ dom = ListDocument
      /\ ParentElement = 1
      /\ Truthy(ValueOf(request.args, Member.filter.matcherArgs[1])) )
    => /\ Answered
       /\ ResolvedElement # NullNode
       /\ dom[ResolvedElement].text
              = ValueOf(request.args, Member.filter.matcherArgs[1])

\* The request gives a value to every parameter.
AllArgsBound ==
    \A i \in 1..Len(request.args) : Truthy(request.args[i].value)

\* The elements of the page object of the request's parent node.
ParentElements == cache[selectedNodes[request.parentNodeId].type].elements

\* The selector of an element with every marker replaced by the value the
\* request gives to the parameter the selector declares at that position.
OwnSelector(descriptor) ==
    Substitute(Parts(descriptor.selector.css),
               MarkerMatch(Parts(descriptor.selector.css)),
               [k \in 1..Len(descriptor.selector.args) |->
                   Arg(descriptor.selector.args[k],
                       ValueOf(request.args, descriptor.selector.args[k]))],
               1)

\* C12 as stated: with the args in effectiveArgs order, every selector the
\* walker resolves (referenced elements of a method, ancestors, target) has
\* each marker replaced by the value of its own parameter. The walker hands
\* the method's own declared args, an element's ancestors' args and the
\* matcher args of ancestors to the wrong selector.
C12_Original_BindingFollowsEffectiveArgs ==
    (ExpandedMember /\ AllArgsBound /\ fault = NONE)
    => \A i \in 1..Len(queries) :
           queries[i].element \in DOMAIN ParentElements
           => queries[i].selector
                  = OwnSelector(ParentElements[queries[i].element])

\* The node matches the declared selector of the descriptor, whatever its
\* markers were replaced by.
MatchesDeclared(document, node, descriptor) ==
    LET declared == Parts(descriptor.selector.css)
    IN  \E selector \in document[node].matches :
            /\ Len(selector) = Len(declared)
            /\ \A k \in 1..Len(declared) :
                   declared[k] \in ParamMarkers \/ selector[k] = declared[k]

\* C13 as stated: every ancestor is resolved, and the target is resolved
\* against the node of its nearest ancestor, whether or not the ancestors'
\* selectors take arguments. The walker skips an ancestor whose selector
\* has no args, and resolves what follows against the node before it.
C13_Original_TargetUnderNearestAncestor ==
    (ExpandedMember /\ fault = NONE /\ Member.category # METHOD)
    => \A i \in 1..Len(queries) :
           LET descriptor == ParentElements[queries[i].element]
           IN  Truthy(descriptor.parent)
               => /\ queries[i].node # DocumentNode
                  /\ MatchesDeclared(dom, queries[i].node,
                                     ParentElements[descriptor.parent])

\* The request gives no value to any matcher argument of the member.
NoMatcherValue ==
    \A k \in 1..Len(Member.filter.matcherArgs) :
        ~Truthy(ValueOf(request.args, Member.filter.matcherArgs[k]))

\* C14 as stated: a returnAll element with a filter, walked without a
\* value for a matcher argument, resolves to nothing (null), without a
\* fault. The code falls back to the unfiltered matches and returns the
\* first of them.
C14_Original_UnboundFilterFindsNothing ==
    ( /\ ExpandedMember
      /\ Member.category # METHOD
      /\ Member.selector.returnAll
      /\ Member.filter.present
      /\ NoMatcherValue )
    => Answered /\ ResolvedElement = NullNode

\* The method descriptor refers to an element its page object does not
\* have: the resolver has stored the copy of nothing for it.
RefersToMissingElement(descriptor) ==
    /\ descriptor.category = METHOD
    /\ \E i \in 1..Len(descriptor.elements) :
           HasNoProperty(descriptor.elements[i])

\* C15 as stated: a method step that names a missing element is resolved
\* without a throw, and walking the method's descriptor against any
\* document finds an element or nothing, never a fault. The walker reads
\* selector.css of the empty descriptor and throws a TypeError whenever the
\* parent node exists.
C15_Original_MissingReferenceNeverFaults ==
    /\ thrown \in {NONE, LastError}
    /\ (ExpandedMember /\ RefersToMissingElement(Member)) => fault = NONE

---------------------------------------------------------------------------
(* Properties of reloadDatabase() and its callers *)

\* The URIs of a set as a sorted list without repetition.
UrisInOrder(uris) ==
    SelectSeq(<<URI_A, URI_B, URI_DEEP, URI_MISSING>>, LAMBDA u : u \in uris)

\* C16 as stated: after reloadDatabase(), rootPageObjectUris is the sorted
\* list, no URI repeated, of exactly the known URIs whose definition (the
\* one that was resolved) declares root: true and a root selector css. The
\* code pushes the URI once for every artifact entry that is a root,
\* whether or not a later artifact replaces the definition.
C16_Original_RootUrisAreTheResolvedRoots ==
    phase = "done"
    => rootPageObjectUris
           = UrisInOrder({ u \in DOMAIN cache : IsRootDefinition(defs[u]) })

\* The response is the error "no page objects loaded".
NoPageObjectsLoaded(message) ==
    message.type = ERROR /\ message.error = NO_PAGE_OBJECTS_LOADED

\* C17 as stated: a failed load is surfaced as a condition of its own: the
\* caller of a locate request is told "no page objects loaded" after a load
\* that failed, and is told something else after a load that succeeded,
\* be it of zero definitions or of none that is a root. The code records
\* nothing of the failure and answers all three alike.
C17_Original_FailedLoadIsDistinct ==
    [][ (LocateRootPageObjects /\ phase \in {"done", "failed"})
        => (NoPageObjectsLoaded(response') <=> phase = "failed") ]_vars

---------------------------------------------------------------------------
(* Properties of the members the database reports *)

\* The names of the operations of a catalog group.
GroupNames(group) ==
    { intrinsicMethods[i].name :
        i \in { j \in 1..Len(intrinsicMethods) :
                  intrinsicMethods[j].group = group } }

\* The capability groups a type names.
GroupsNamed(type) ==
    IF Truthy(type)
    THEN { TypeArray(type)[k] : k \in 1..Len(TypeArray(type)) }
    ELSE {}

\* The last request expanded a basic element and was answered with its
\* intrinsic members.
ExpandedBasicElement ==
    /\ ExpandedMember
    /\ Member.category = BASIC
    /\ Member.type \notin DOMAIN cache
    /\ Answered
    /\ response.parent = request.nodeId

\* C18: the intrinsic members of a basic element contain every basic
\* operation and every operation of each capability group its type names;
\* a later group removes nothing an earlier one has added.
C18_IntrinsicMembersOfEveryGroup ==
    ExpandedBasicElement
    => \A group \in {"basic"} \cup GroupsNamed(Member.type) :
           GroupNames(group) \subseteq response.located

\* The element typed [clickable, editable] has been expanded: its members
\* are those of basic, clickable and editable together.
C18_Witness ==
    /\ ExpandedBasicElement
    /\ Member.type = "[clickable,editable]"
    /\ response.located
           = GroupNames("basic") \cup GroupNames("clickable")
                 \cup GroupNames("editable")
    /\ "click" \in response.located
    /\ "setText" \in response.located

---------------------------------------------------------------------------
(* Properties of the selected-node collection *)

\* C19 as stated: the node descriptors are discarded when the session
\* resets: a database reload or a locate request leaves none of the
\* descriptors created before it in the collection. Nothing in the content
\* script ever removes a descriptor.
C19_Original_ResetDiscardsNodes ==
    [][ (ReloadBegin \/ LocateRootPageObjects)
        => selectedNodes' = EmptyMap ]_vars

---------------------------------------------------------------------------
(* Properties of external steps, under Spec *)

\* The compose array of the method holds an applyExternal step.
HasExternalStep(method) ==
    \E i \in 1..Len(method.compose) : Truthy(method.compose[i].applyExternal)

\* C20 as stated: a resolved method whose compose holds an applyExternal
\* step has the type of its declared return field, void when it has none.
\* The code overwrites that type with the return type of the last step
\* once the steps are walked.
C20_Original_ExternalTypeIsDeclaredReturn ==
    \A uri \in DOMAIN cache :
      \A i \in 1..Len(defs[uri].methods) :
        LET method == defs[uri].methods[i]
        IN  ( /\ HasExternalStep(method)
              /\ ~Truthy(method.returnType)
              /\ method.name \in DOMAIN cache[uri].methods )
            => cache[uri].methods[method.name].type
                   = IF Truthy(method.return) THEN method.return ELSE VOID

---------------------------------------------------------------------------
(* The method descriptors of the cache *)

\* The method descriptors the cache holds.
CachedMethods ==
    UNION { { cache[u].methods[m] : m \in DOMAIN cache[u].methods } :
            u \in DOMAIN cache }

\* C21 as stated: in every resolved MethodDescriptor no two entries of
\* the elements list share a name.
C21_Original_ElementsDeduplicatedByName ==
    \A descriptor \in CachedMethods :
        \A i, j \in 1..Len(descriptor.elements) :
            descriptor.elements[i].name = descriptor.elements[j].name => i = j

\* The methods of the definitions whose descriptors the cache holds, as
\* pairs of definition and descriptor.
ResolvedMethods ==
    UNION { { [method |-> defs[u].methods[i],
               descriptor |-> cache[u].methods[defs[u].methods[i].name]] :
              i \in MethodIndexes(u) } : u \in DOMAIN cache }

\* C22 as stated: every resolved MethodDescriptor has a defined, non-empty
\* type; a method that declares no return type and has no steps has type
\* void.
C22_Original_TypeNeverEmpty ==
    \A r \in ResolvedMethods :
        /\ r.descriptor.type # UNDEF
        /\ r.descriptor.type # ""
        /\ (~DeclaresReturnType(r.method) /\ r.method.compose = <<>>)
              => r.descriptor.type = VOID

---------------------------------------------------------------------------
(* Imports *)

\* The definition of a URI in the latest import in place that has it.
RECURSIVE LastImported(_)
LastImported(imports) ==
    IF imports = <<>> THEN EmptyMap
    ELSE LET before == LastImported(SubSeq(imports, 1, Len(imports) - 1))
             contents == imports[Len(imports)].artifactContents
         IN  [u \in DOMAIN before \cup { contents[i].uri : i \in 1..Len(contents) } |->
                 IF \E i \in 1..Len(contents) : contents[i].uri = u
                 THEN (CHOOSE e \in { contents[i] : i \in 1..Len(contents) } :
                           e.uri = u).definition
                 ELSE before[u]]

\* C23 as stated: the definitions a reload resolves are, for every URI, the
\* one of the most recently imported artifact in place that defines it,
\* after any imports and removals.
C23_Original_LastImportedWins ==
    [][ReloadLoaded => defs' = LastImported(imported)]_vars

---------------------------------------------------------------------------
(* Container content types *)

\* The type a node takes when the panel selects contentType for it.
SelectedType(contentType) == IF contentType = "" THEN CONTAINER ELSE contentType

\* C24: updateContainerContentType(nodeId, contentType) changes only the
\* type of the descriptor of nodeId, to contentType or to "container" when
\* contentType is empty; its id, element and args and every other node
\* stay as they are. For a nodeId that is not in the collection it returns
\* a NO_SUCH_NODE error and changes nothing.
C24_UpdateChangesOnlyTheType ==
    [][UpdateContainerContentType =>
          IF request'.nodeId \in DOMAIN selectedNodes
          THEN /\ DOMAIN selectedNodes' = DOMAIN selectedNodes
               /\ \A n \in DOMAIN selectedNodes \ {request'.nodeId} :
                     selectedNodes'[n] = selectedNodes[n]
               /\ selectedNodes'[request'.nodeId] =
                     [selectedNodes[request'.nodeId] EXCEPT
                         !.type = SelectedType(request'.contentType)]
          ELSE /\ selectedNodes' = selectedNodes
               /\ response' = ErrorResult(NO_SUCH_NODE)]_vars

\* C24 witness: with two nodes in the collection, one of them has just
\* been given the content type po/b and kept its id, the other has not.
C24_Witness ==
    /\ request.type = UPDATE_CONTAINER_CONTENT_TYPE
    /\ request.contentType = URI_B
    /\ response.type = CONTAINER_CONTENT_TYPE_UPDATED
    /\ request.nodeId \in DOMAIN selectedNodes
    /\ selectedNodes[request.nodeId].type = URI_B
    /\ selectedNodes[request.nodeId].id # URI_B
    /\ \E n \in DOMAIN selectedNodes :
          n # request.nodeId /\ selectedNodes[n].type # URI_B

---------------------------------------------------------------------------
(* Overlapping reloads *)

\* The loop of lines 613-615 run on its own, from an empty cache and the
\* arrays as parsed: what a single reload of the stored definitions
\* leaves.
RECURSIVE ResolveAll(_, _)
ResolveAll(i, st) ==
    IF i > Len(order) \/ st.thrown # NONE THEN st
    ELSE With(parsePageObject(order[i], st, 0),
              LAMBDA r : ResolveAll(i + 1, r.st))

SingleReload ==
    ResolveAll(1, [margs |-> DeclaredArgs(defs), cache |-> EmptyMap,
                   yields |-> <<>>, thrown |-> NONE])

\* The cache with every descriptor holding the contents of its arrays.
Contents(parsed, heap) ==
    [u \in DOMAIN parsed |->
        [elements |-> parsed[u].elements,
         methods |->
            [m \in DOMAIN parsed[u].methods |->
                [parsed[u].methods[m] EXCEPT
                    !.effectiveArgs =
                        IF parsed[u].methods[m].argsRef = NoRef
                        THEN parsed[u].methods[m].effectiveArgs
                        ELSE heap[parsed[u].methods[m].argsRef]]]]]

\* C25 as stated: once every call of reloadDatabase() has completed, also
\* calls that overlapped, rootPageObjectUris and the cache are those of a
\* single reload of the stored definitions, and no URI appears twice in
\* rootPageObjectUris.
C25_Original_OverlapEqualsSingleReload ==
    (phase = "done" /\ loads = <<>>) =>
        /\ rootPageObjectUris = SortUris(RootPushes(Entries(artifacts)))
        /\ Contents(cache, margs)
              = Contents(SingleReload.cache, SingleReload.margs)
        /\ \A i, j \in 1..Len(rootPageObjectUris) :
              rootPageObjectUris[i] = rootPageObjectUris[j] => i = j

\* The request gives a value to every matcher argument of the member.
MatcherValuesBound ==
    /\ Member.filter.matcherArgs # <<>>
    /\ \A k \in 1..Len(Member.filter.matcherArgs) :
           Truthy(ValueOf(request.args, Member.filter.matcherArgs[k]))

\* The text of the node passes the matcher of the descriptor's filter for
\* the value.
Satisfies(document, node, descriptor, value) ==
    CASE descriptor.filter.matcherType = "stringEquals" ->
             document[node].text = value
      [] descriptor.filter.matcherType = "stringContains" ->
             Includes(document[node].text, value)
      [] OTHER -> FALSE

\* C26 as stated: a returnAll element with a filter, walked with a value
\* bound to the matcher argument, resolves to an element that satisfies the
\* matcher or to null. When no candidate satisfies the matcher the code
\* keeps the unfiltered matches and returns the first of them.
C26_Original_NoFallbackToUnfiltered ==
    ( /\ ExpandedMember
      /\ Member.category # METHOD
      /\ Member.selector.returnAll
      /\ Member.filter.present
      /\ MatcherValuesBound
      /\ Answered )
    => \/ ResolvedElement = NullNode
       \/ Satisfies(dom, ResolvedElement, Member,
                    ValueOf(request.args, Member.filter.matcherArgs[1]))

\* C27 as stated: walking an element descriptor of a resolved page object
\* terminates: the loop over the parent names reaches an element without a
\* parent, and the filter's apply-chain lookup ends. The element map is
\* keyed by name alone, so an element declared inside an element of its own
\* name is its own parent there, and the loop never ends.
C27_Original_WalkingTerminates == fault # Hang

\* The root URIs whose page object the callback of the forEach lists.
ValidRootUris ==
    { rootPageObjectUris[i] : i \in
        { j \in 1..Len(rootPageObjectUris) :
            IsValidRoot(dom, cache[rootPageObjectUris[j]]) } }

\* C28 as stated: locateValidRootPageObjects reports every root page
\* object whose root selector matches and that passes the child-element
\* check, two distinct URIs as two distinct entries. The located set is
\* keyed by the display name, which two URIs can share.
C28_Original_EveryValidRootLocated ==
    ( /\ request.type = LOCATE_ROOT_PAGE_OBJECTS
      /\ response.type = ROOT_PAGE_OBJECTS_LOCATED
      /\ phase = "done" )
    => \A u \in ValidRootUris :
           \E name \in DOMAIN response.located : response.located[name] = u

---------------------------------------------------------------------------
(* Properties of the background service worker, under Background *)

\* C29 as stated: the response to a forwarded request is posted only to
\* the port registered for the tab when it arrives, and when the page's
\* port has disconnected meanwhile the response or the error is dropped
\* without a fault. The code calls postMessage on the null that
\* getPortForTab returns, and its rejection handler reads the port of a
\* connection that is no longer there.
C29_Original_DroppedWithoutFault ==
    settled.kind = FORWARDED
    => /\ settled.fault = NONE
       /\ settled.posted # NULL => settled.posted = settled.registered

---------------------------------------------------------------------------
(* Properties of the main panel's tab set, under DevToolsPage *)

\* C30 as stated: at most one tab of the main panel's tab set is active
\* (shown) at any time, after any tab-link clicks, imports, panel switches
\* and Start-button clicks. The Start button activates the actions tab
\* itself, without the tab set deactivating the tab that is active.
C30_Original_AtMostOneActiveTab == Cardinality(activeTabs) <= 1

===========================================================================
